---- MODULE Spec2Model ----
(***************************************************************************)
(* Signal fusion and position risk engine of the Bybit trading robot.      *)
(*                                                                         *)
(* RiskManager        src/unnamed/part_001                                 *)
(* TechnicalAnalysis  src/botMonitor.js (class TechnicalAnalysis)          *)
(* TradingBot         src/tradingBot.js                                     *)
(*                                                                         *)
(* Numbers.  JavaScript numbers are modelled by integers in fixed point:   *)
(* prices and PnL are whole units, percentages are whole percents, USD     *)
(* amounts of calculatePositionSize are 1/10000 dollars, confidences of    *)
(* analyzeSignal are thousandths of a point and its strengths millionths.  *)
(* The input sets are chosen so that every product and quotient the code   *)
(* forms is exact in that scale.                                           *)
(***************************************************************************)
EXTENDS Integers, Sequences, FiniteSets, TLC

VARIABLES
    positions,      \* RiskManager.positions: Map symbol -> position, as its entry list in insertion order
    trades,         \* RiskManager.trades: closed position records
    dailyLoss,      \* RiskManager.dailyLoss
    dailyProfit,    \* RiskManager.dailyProfit
    totalDrawdown,  \* RiskManager.totalDrawdown
    peakBalance,    \* RiskManager.peakBalance
    lastResetDate,  \* RiskManager.lastResetDate
    now,            \* the wall clock read by Date.now(), in half days
    ret,            \* the last RiskManager call and the value it returned
    calls,          \* number of RiskManager calls made so far
    sizeArgs,       \* the arguments of a calculatePositionSize call
    sizeRet,        \* the value that call returned
    isRunning,      \* TradingBot.isRunning
    tradingInterval,\* whether the 30-second interval timer of startTradingLoop is armed
    cycles,         \* the analyzeAndTrade invocations started so far, each with the await it is suspended on
    priceHistory,   \* TechnicalAnalysis.priceHistory: Map key -> array of candles
    addedCount,     \* per key, the number of addCandle calls made so far
    signalRet,      \* the value the last analyzeSignal call returned
    profitProtection, \* config.trading.profitProtection
    reversalArgs,   \* the arguments of a detectTrendReversal call
    reversalRet,    \* the value that call returned
    totalTrades,    \* TradingBot.performanceStats.totalTrades
    tradesExecuted, \* PerformanceMonitor.metrics.tradesExecuted
    publicWs,       \* BybitWebSocket.publicWs: the index of the current socket in sockets, or null
    sockets,        \* the readyState of every socket the instance has created
    isConnected,    \* BybitWebSocket.isConnected
    reconnectAttempts, \* BybitWebSocket.reconnectAttempts
    connectionCheckInterval, \* BybitWebSocket.connectionCheckInterval
    intervals,      \* the setInterval timers the instance has created: delay and whether still armed
    reconnectTimers,\* pending setTimeout callbacks of reconnectPublic: those that connect, those that retry
    closeCalled     \* whether close() has been called on the instance

riskVars == <<calls, now, positions, trades, dailyLoss, dailyProfit, totalDrawdown, peakBalance, lastResetDate, ret>>

sizeVars == <<sizeArgs, sizeRet>>

cycleVars == <<isRunning, tradingInterval, cycles>>

historyVars == <<priceHistory, addedCount>>

signalVars == <<signalRet>>

reversalVars == <<profitProtection, reversalArgs, reversalRet>>

statVars == <<totalTrades, tradesExecuted>>

wsVars == <<publicWs, sockets, isConnected, reconnectAttempts, connectionCheckInterval, intervals,
            reconnectTimers, closeCalled>>

vars == <<riskVars, sizeVars, cycleVars, historyVars, signalVars, reversalVars, statVars, wsVars>>

nonRiskVars == <<sizeVars, cycleVars, historyVars, signalVars, reversalVars, statVars, wsVars>>

nonSizeVars == <<riskVars, cycleVars, historyVars, signalVars, reversalVars, statVars, wsVars>>

nonCycleVars == <<riskVars, sizeVars, historyVars, signalVars, reversalVars, statVars, wsVars>>

nonHistoryVars == <<riskVars, sizeVars, cycleVars, signalVars, reversalVars, statVars, wsVars>>

nonSignalVars == <<riskVars, sizeVars, cycleVars, historyVars, reversalVars, statVars, wsVars>>

nonReversalVars == <<riskVars, sizeVars, cycleVars, historyVars, signalVars, statVars, wsVars>>

nonStatVars == <<sizeVars, historyVars, signalVars, reversalVars, wsVars>>

nonWsVars == <<riskVars, sizeVars, cycleVars, historyVars, signalVars, reversalVars, statVars>>

-----------------------------------------------------------------------------
(* Bounds of the model *)

MaxCalls == 5

(* Input sets *)

Symbols == {"BTCUSDT", "XRPUSDT"}
Sides == {"Buy", "Sell"}
Sizes == {2}
EntryPrices == {100}
Prices == {94, 98, 102, 104, 106}

\* JavaScript null / undefined for a numeric field
Null == 0 - 1

\* not-a-number
NaN == 0 - 999

\* null or undefined where an object is expected
NullObject == [isNull |-> TRUE]

\* undefined for the string field position.reason
NoReason == "undefined"

CustomStops == {Null}
CustomTakes == {Null}
RiskPercents == {Null}
StopPrices == {98, 100, 102}
Reasons == {"manual"}
ExitPrices == {98, 106}

-----------------------------------------------------------------------------
(* config.js is not part of the sources; the values are the spec's defaults *)

\* config.trading.stopLoss, in percent
ConfigStopLoss == 2

\* config.trading.riskRewardRatio
ConfigRiskRewardRatio == 2

-----------------------------------------------------------------------------
(* Map: the entry list of a JavaScript Map, in insertion order *)

MapHas(m, k) == \E i \in DOMAIN m : m[i].key = k

MapIndex(m, k) == CHOOSE i \in DOMAIN m : m[i].key = k

MapGet(m, k) == m[MapIndex(m, k)].value

\* a set() that appends without looking for the key
MapSetAppend(m, k, v) == Append(m, [key |-> k, value |-> v])

\* Map.prototype.set: replaces the value of an existing key in place, appends a new key
MapSet(m, k, v) ==
    IF MapHas(m, k)
    THEN [m EXCEPT ![MapIndex(m, k)] = [key |-> k, value |-> v]]
    ELSE Append(m, [key |-> k, value |-> v])

\* Map.prototype.delete
MapDelete(m, k) == SelectSeq(m, LAMBDA e : e.key # k)

MapKeys(m) == {m[i].key : i \in DOMAIN m}

Abs(x) == IF x < 0 THEN 0 - x ELSE x

-----------------------------------------------------------------------------
(* RiskManager: stop-loss and take-profit levels *)

calculateStopLoss(entryPrice, side, riskPercent) ==
    LET defaultRisk == IF ConfigStopLoss # 0 THEN ConfigStopLoss ELSE 2
        risk == IF riskPercent # Null /\ riskPercent # 0 THEN riskPercent ELSE defaultRisk
    IN  IF side = "Buy"
        THEN (entryPrice * (100 - risk)) \div 100
        ELSE (entryPrice * (100 + risk)) \div 100

\* a target that is placed above the entry for either side
calculateTakeProfitAboveEntry(entryPrice, side, stopLoss) ==
    LET defaultRatio == IF ConfigRiskRewardRatio # 0 THEN ConfigRiskRewardRatio ELSE 2
        ratio == defaultRatio
        riskDistance == Abs(entryPrice - stopLoss)
    IN  entryPrice + riskDistance * ratio

calculateTakeProfit(entryPrice, side, stopLoss) ==
    LET defaultRatio == IF ConfigRiskRewardRatio # 0 THEN ConfigRiskRewardRatio ELSE 2
        ratio == defaultRatio
        riskDistance == Abs(entryPrice - stopLoss)
    IN  IF side = "Buy"
        THEN entryPrice + riskDistance * ratio
        ELSE entryPrice - riskDistance * ratio

\* a validation that accepts a stop at the entry price
validateStopLossInclusive(position, stopLossPrice) ==
    IF position.side = "Buy"
    THEN stopLossPrice <= position.entryPrice
    ELSE stopLossPrice >= position.entryPrice

validateStopLoss(position, stopLossPrice) ==
    IF position.side = "Buy"
    THEN stopLossPrice < position.entryPrice
    ELSE stopLossPrice > position.entryPrice

\* the position record after setStopLoss accepted the price
WithStopLoss(position, stopLossPrice, isTrailing) ==
    IF isTrailing
    THEN [position EXCEPT
            !.stopLoss = stopLossPrice,
            !.isTrailingStop = TRUE,
            !.trailingStopDistance = Abs(position.entryPrice - stopLossPrice),
            !.highestPrice = IF position.side = "Buy" THEN position.entryPrice ELSE stopLossPrice,
            !.lowestPrice = IF position.side = "Sell" THEN position.entryPrice ELSE stopLossPrice]
    ELSE [position EXCEPT !.stopLoss = stopLossPrice, !.isTrailingStop = FALSE]

\* a trailing stop that follows the price in both directions
TrailedFollowingPrice(position, currentPrice) ==
    IF ~position.isTrailingStop
    THEN [pos |-> position, updated |-> FALSE]
    ELSE IF position.side = "Buy"
    THEN IF currentPrice # position.highestPrice
         THEN [pos |-> [position EXCEPT !.highestPrice = currentPrice,
                                        !.stopLoss = currentPrice - position.trailingStopDistance],
               updated |-> TRUE]
         ELSE [pos |-> position, updated |-> FALSE]
    ELSE IF currentPrice # position.lowestPrice
         THEN [pos |-> [position EXCEPT !.lowestPrice = currentPrice,
                                        !.stopLoss = currentPrice + position.trailingStopDistance],
               updated |-> TRUE]
         ELSE [pos |-> position, updated |-> FALSE]

\* updateTrailingStop on a found position: the record afterwards and the value returned
Trailed(position, currentPrice) ==
    IF ~position.isTrailingStop
    THEN [pos |-> position, updated |-> FALSE]
    ELSE IF position.side = "Buy"
    THEN IF currentPrice > position.highestPrice
         THEN LET newStopLoss == currentPrice - position.trailingStopDistance
              IN  IF newStopLoss > position.stopLoss
                  THEN [pos |-> [position EXCEPT !.highestPrice = currentPrice, !.stopLoss = newStopLoss],
                        updated |-> TRUE]
                  ELSE [pos |-> [position EXCEPT !.highestPrice = currentPrice], updated |-> FALSE]
         ELSE [pos |-> position, updated |-> FALSE]
    ELSE IF currentPrice < position.lowestPrice
         THEN LET newStopLoss == currentPrice + position.trailingStopDistance
              IN  IF newStopLoss < position.stopLoss
                  THEN [pos |-> [position EXCEPT !.lowestPrice = currentPrice, !.stopLoss = newStopLoss],
                        updated |-> TRUE]
                  ELSE [pos |-> [position EXCEPT !.lowestPrice = currentPrice], updated |-> FALSE]
         ELSE [pos |-> position, updated |-> FALSE]

checkStopLossHit(position, currentPrice) ==
    IF position.stopLoss = Null \/ position.stopLoss = 0
    THEN FALSE
    ELSE IF position.side = "Buy"
         THEN currentPrice <= position.stopLoss
         ELSE currentPrice >= position.stopLoss

checkTakeProfitHit(position, currentPrice) ==
    IF position.takeProfit = Null \/ position.takeProfit = 0
    THEN FALSE
    ELSE IF position.side = "Buy"
         THEN currentPrice >= position.takeProfit
         ELSE currentPrice <= position.takeProfit

\* a PnL that treats every position as a long
calculatePnLLongOnly(position, currentPrice) ==
    (currentPrice - position.entryPrice) * position.size

calculatePnL(position, currentPrice) ==
    IF position.side = "Buy"
    THEN (currentPrice - position.entryPrice) * position.size
    ELSE (position.entryPrice - currentPrice) * position.size

\* a check that looks at the take-profit first
CloseReasonTakeProfitFirst(position, currentPrice) ==
    IF checkTakeProfitHit(position, currentPrice) THEN "take_profit"
    ELSE IF checkStopLossHit(position, currentPrice) THEN "stop_loss"
    ELSE "none"

\* the close instruction of one position after its trailing update, "none" when neither level is hit
CloseReason(position, currentPrice) ==
    IF checkStopLossHit(position, currentPrice) THEN "stop_loss"
    ELSE IF checkTakeProfitHit(position, currentPrice) THEN "take_profit"
    ELSE "none"

-----------------------------------------------------------------------------
(* RiskManager: operations *)

RiskInit ==
    /\ positions = << >>
    /\ trades = << >>
    /\ dailyLoss = 0
    /\ dailyProfit = 0
    /\ totalDrawdown = 0
    /\ peakBalance = 0
    /\ lastResetDate = 0
    /\ now = 0
    /\ ret = [op |-> "constructor"]
    /\ calls = 0

NewPosition(symbol, side, size, entryPrice, customStopLoss, customTakeProfit, riskPercent) ==
    LET stopLoss == IF customStopLoss # Null /\ customStopLoss # 0
                    THEN customStopLoss
                    ELSE calculateStopLoss(entryPrice, side, riskPercent)
        takeProfit == IF customTakeProfit # Null /\ customTakeProfit # 0
                      THEN customTakeProfit
                      ELSE calculateTakeProfit(entryPrice, side, stopLoss)
    IN  [symbol |-> symbol, side |-> side, size |-> size, entryPrice |-> entryPrice,
         stopLoss |-> stopLoss, takeProfit |-> takeProfit, timestamp |-> now, status |-> "open",
         isTrailingStop |-> FALSE, trailingStopDistance |-> Null,
         highestPrice |-> IF side = "Buy" THEN entryPrice ELSE Null,
         lowestPrice |-> IF side = "Sell" THEN entryPrice ELSE Null,
         exitPrice |-> Null, exitTime |-> Null, reason |-> NoReason, pnl |-> Null]

addPosition(symbol, side, size, entryPrice, customStopLoss, customTakeProfit, riskPercent) ==
    LET position == NewPosition(symbol, side, size, entryPrice, customStopLoss, customTakeProfit, riskPercent)
    IN  /\ positions' = MapSet(positions, symbol, position)
        /\ ret' = [op |-> "addPosition", symbol |-> symbol, existed |-> MapHas(positions, symbol),
                   rejected |-> FALSE, value |-> position]
        /\ UNCHANGED <<trades, dailyLoss, dailyProfit, totalDrawdown, peakBalance, lastResetDate, now>>

AddPosition ==
    /\ calls < MaxCalls
    /\ UNCHANGED nonRiskVars
    /\ calls' = calls + 1
    /\ \E symbol \in Symbols, side \in Sides, size \in Sizes, entryPrice \in EntryPrices,
       customStopLoss \in CustomStops, customTakeProfit \in CustomTakes, riskPercent \in RiskPercents :
        addPosition(symbol, side, size, entryPrice, customStopLoss, customTakeProfit, riskPercent)

closePosition(symbol, exitPrice, reason) ==
    IF ~MapHas(positions, symbol)
    THEN /\ ret' = [op |-> "closePosition", symbol |-> symbol, found |-> FALSE, value |-> Null]
         /\ UNCHANGED <<positions, trades, dailyLoss, dailyProfit, totalDrawdown, peakBalance,
                        lastResetDate, now>>
    ELSE LET position == MapGet(positions, symbol)
             pnl == calculatePnL(position, exitPrice)
             closed == [position EXCEPT !.exitPrice = exitPrice, !.exitTime = now,
                                        !.status = "closed", !.reason = reason, !.pnl = pnl]
         IN  /\ dailyProfit' = IF pnl > 0 THEN dailyProfit + pnl ELSE dailyProfit
             /\ dailyLoss' = IF pnl > 0 THEN dailyLoss ELSE dailyLoss + Abs(pnl)
             /\ trades' = Append(trades, closed)
             /\ positions' = MapDelete(positions, symbol)
             /\ ret' = [op |-> "closePosition", symbol |-> symbol, found |-> TRUE, value |-> closed]
             /\ UNCHANGED <<totalDrawdown, peakBalance, lastResetDate, now>>

ClosePosition ==
    /\ calls < MaxCalls
    /\ UNCHANGED nonRiskVars
    /\ calls' = calls + 1
    /\ \E symbol \in Symbols, exitPrice \in ExitPrices, reason \in Reasons :
        closePosition(symbol, exitPrice, reason)

setStopLoss(op, symbol, stopLossPrice, isTrailing) ==
    IF ~MapHas(positions, symbol)
    THEN /\ ret' = [op |-> op, symbol |-> symbol, found |-> FALSE, price |-> stopLossPrice,
                    isTrailing |-> isTrailing, value |-> FALSE]
         /\ UNCHANGED <<positions, trades, dailyLoss, dailyProfit, totalDrawdown, peakBalance,
                        lastResetDate, now>>
    ELSE LET position == MapGet(positions, symbol)
         IN  IF ~validateStopLoss(position, stopLossPrice)
             THEN /\ ret' = [op |-> op, symbol |-> symbol, found |-> TRUE, price |-> stopLossPrice,
                             isTrailing |-> isTrailing, value |-> FALSE]
                  /\ UNCHANGED <<positions, trades, dailyLoss, dailyProfit, totalDrawdown, peakBalance,
                                 lastResetDate, now>>
             ELSE /\ positions' = MapSet(positions, symbol, WithStopLoss(position, stopLossPrice, isTrailing))
                  /\ ret' = [op |-> op, symbol |-> symbol, found |-> TRUE, price |-> stopLossPrice,
                             isTrailing |-> isTrailing, value |-> TRUE]
                  /\ UNCHANGED <<trades, dailyLoss, dailyProfit, totalDrawdown, peakBalance,
                                 lastResetDate, now>>

SetStopLoss ==
    /\ calls < MaxCalls
    /\ UNCHANGED nonRiskVars
    /\ calls' = calls + 1
    /\ \E symbol \in Symbols, stopLossPrice \in StopPrices, isTrailing \in BOOLEAN :
        setStopLoss("setStopLoss", symbol, stopLossPrice, isTrailing)

ModifyStopLoss ==
    /\ calls < MaxCalls
    /\ UNCHANGED nonRiskVars
    /\ calls' = calls + 1
    /\ \E symbol \in Symbols, newStopLoss \in StopPrices, isTrailing \in BOOLEAN :
        setStopLoss("modifyStopLoss", symbol, newStopLoss, isTrailing)

updateTrailingStop(symbol, currentPrice) ==
    IF ~MapHas(positions, symbol)
    THEN /\ ret' = [op |-> "updateTrailingStop", symbol |-> symbol, price |-> currentPrice, value |-> FALSE]
         /\ UNCHANGED <<positions, trades, dailyLoss, dailyProfit, totalDrawdown, peakBalance,
                        lastResetDate, now>>
    ELSE LET t == Trailed(MapGet(positions, symbol), currentPrice)
         IN  /\ positions' = MapSet(positions, symbol, t.pos)
             /\ ret' = [op |-> "updateTrailingStop", symbol |-> symbol, price |-> currentPrice,
                        value |-> t.updated]
             /\ UNCHANGED <<trades, dailyLoss, dailyProfit, totalDrawdown, peakBalance, lastResetDate, now>>

UpdateTrailingStop ==
    /\ calls < MaxCalls
    /\ UNCHANGED nonRiskVars
    /\ calls' = calls + 1
    /\ \E symbol \in Symbols, currentPrice \in Prices : updateTrailingStop(symbol, currentPrice)

checkStopLossAndTakeProfit(symbol, currentPrice) ==
    IF ~MapHas(positions, symbol)
    THEN /\ ret' = [op |-> "checkStopLossAndTakeProfit", symbol |-> symbol, price |-> currentPrice,
                    value |-> "null"]
         /\ UNCHANGED <<positions, trades, dailyLoss, dailyProfit, totalDrawdown, peakBalance,
                        lastResetDate, now>>
    ELSE LET t == Trailed(MapGet(positions, symbol), currentPrice)
             reason == CloseReason(t.pos, currentPrice)
         IN  /\ positions' = MapSet(positions, symbol, t.pos)
             /\ ret' = [op |-> "checkStopLossAndTakeProfit", symbol |-> symbol, price |-> currentPrice,
                        value |-> IF reason = "none" THEN "null" ELSE reason]
             /\ UNCHANGED <<trades, dailyLoss, dailyProfit, totalDrawdown, peakBalance, lastResetDate, now>>

CheckStopLossAndTakeProfit ==
    /\ calls < MaxCalls
    /\ UNCHANGED nonRiskVars
    /\ calls' = calls + 1
    /\ \E symbol \in Symbols, currentPrice \in Prices : checkStopLossAndTakeProfit(symbol, currentPrice)

\* currentPrices[symbol] is Null where the caller has no price for the symbol
checkAllStopLossesAndTakeProfits(currentPrices) ==
    LET priced(e) == currentPrices[e.key] # Null /\ currentPrices[e.key] # 0
        after == [i \in DOMAIN positions |->
                    IF priced(positions[i])
                    THEN [key |-> positions[i].key,
                          value |-> Trailed(positions[i].value, currentPrices[positions[i].key]).pos]
                    ELSE positions[i]]
        hit(e) == priced(e) /\ CloseReason(e.value, currentPrices[e.key]) # "none"
        toClose == [i \in DOMAIN SelectSeq(after, hit) |->
                      LET e == SelectSeq(after, hit)[i]
                      IN  [symbol |-> e.key, action |-> "close",
                           reason |-> CloseReason(e.value, currentPrices[e.key]),
                           price |-> currentPrices[e.key]]]
    IN  /\ positions' = after
        /\ ret' = [op |-> "checkAllStopLossesAndTakeProfits", prices |-> currentPrices,
                   value |-> toClose]
        /\ UNCHANGED <<trades, dailyLoss, dailyProfit, totalDrawdown, peakBalance, lastResetDate, now>>

CheckAllStopLossesAndTakeProfits ==
    /\ calls < MaxCalls
    /\ UNCHANGED nonRiskVars
    /\ calls' = calls + 1
    /\ \E currentPrices \in [Symbols -> Prices \cup {Null}] : checkAllStopLossesAndTakeProfits(currentPrices)

RiskNext ==
    \/ AddPosition
    \/ ClosePosition
    \/ SetStopLoss
    \/ ModifyStopLoss
    \/ UpdateTrailingStop
    \/ CheckStopLossAndTakeProfit
    \/ CheckAllStopLossesAndTakeProfits


-----------------------------------------------------------------------------
(* RiskManager: position sizing.  USD amounts and token quantities are in   *)
(* units of 1/10000, signal strength is in tenths, confidence and the       *)
(* position-size fraction are in percent.                                   *)

\* config.trading.positionSize, in percent
ConfigPositionSize == 5

\* units per dollar and per token
Scale == 10000

SizeSymbols == {"BTCUSDT", "XRPUSDT", "TRXUSDT", "DOGEUSDT"}
Balances == {10, 30, 40, 1000, 10000}
SignalStrengths == {0, 5, 9, 10, 20}
Confidences == {0, 50, 80, 100}
SizePrices == {Null, 0, 2, 30000}

RECURSIVE Pow10(_)

Min(a, b) == IF a < b THEN a ELSE b

Max(a, b) == IF a > b THEN a ELSE b

Pow10(n) == IF n = 0 THEN 1 ELSE 10 * Pow10(n - 1)

\* decimalsMap[symbol] for the symbols modelled, Null (undefined) for a symbol not in the table
decimalsMap(symbol) ==
    CASE symbol = "BTCUSDT" -> 3
      [] symbol = "XRPUSDT" -> 0
      [] symbol = "TRXUSDT" -> 0
      [] OTHER -> Null

\* decimalsMap[symbol] || 2: an entry of 0 is falsy and yields the default
getSymbolDecimals(symbol) ==
    LET entry == decimalsMap(symbol)
    IN  IF entry # Null /\ entry # 0 THEN entry ELSE 2

\* a lookup whose default for a missing symbol is no minimum
getMinQtyNoDefault(symbol) ==
    LET entry == CASE symbol = "BTCUSDT" -> Scale \div 1000
                   [] symbol = "XRPUSDT" -> 5 * Scale
                   [] symbol = "TRXUSDT" -> Scale
                   [] OTHER -> Null
    IN  IF entry # Null /\ entry # 0 THEN entry ELSE 0

\* minQtyMap[symbol] || 0.01
getMinQty(symbol) ==
    LET entry == CASE symbol = "BTCUSDT" -> Scale \div 1000
                   [] symbol = "XRPUSDT" -> 5 * Scale
                   [] symbol = "TRXUSDT" -> Scale
                   [] OTHER -> Null
    IN  IF entry # Null /\ entry # 0 THEN entry ELSE Scale \div 100

\* an adjustment that leaves the confidence out
AdjustedSizeUSDNoConfidence(balance, signalStrength, confidence) ==
    LET baseSizeUSD == balance * ConfigPositionSize
        strengthMultiplier == Min(signalStrength * 15, 150)
    IN  baseSizeUSD * strengthMultiplier

\* adjustedSizeUSD of calculatePositionSize
AdjustedSizeUSD(balance, signalStrength, confidence) ==
    LET baseSizeUSD == balance * ConfigPositionSize
        strengthMultiplier == Min(signalStrength * 15, 150)
    IN  (baseSizeUSD * strengthMultiplier * confidence) \div 100

\* the size with the 70% cap applied after the $25 floor
FinalSizeUSDCapLast(balance, signalStrength, confidence) ==
    LET baseSizeUSD == balance * ConfigPositionSize
        strengthMultiplier == Min(signalStrength * 15, 150)
        adjustedSizeUSD == (baseSizeUSD * strengthMultiplier * confidence) \div 100
        minSizeUSD == 25 * Scale
        maxSizeUSD == balance * 7000
    IN  Min(Max(adjustedSizeUSD, minSizeUSD), maxSizeUSD)

\* finalSizeUSD of calculatePositionSize
FinalSizeUSD(balance, signalStrength, confidence) ==
    LET adjustedSizeUSD == AdjustedSizeUSD(balance, signalStrength, confidence)
        minSizeUSD == 25 * Scale
        maxSizeUSD == balance * 7000
    IN  Max(Min(adjustedSizeUSD, maxSizeUSD), minSizeUSD)

calculatePositionSize(balance, symbol, signalStrength, confidence, currentPrice) ==
    LET finalSizeUSD == FinalSizeUSD(balance, signalStrength, confidence)
    IN  IF currentPrice # Null /\ currentPrice > 0
        THEN LET decimals == getSymbolDecimals(symbol)
                 \* Math.floor(quantity * 10^decimals) / 10^decimals, quantity = finalSizeUSD / currentPrice
                 roundedQuantity == (finalSizeUSD \div (currentPrice * Pow10(4 - decimals)))
                                        * Pow10(4 - decimals)
                 minQty == getMinQty(symbol)
                 finalQuantity == Max(roundedQuantity, minQty)
             IN  [done |-> TRUE, sizeUSD |-> finalSizeUSD, quantity |-> finalQuantity,
                  price |-> currentPrice]
        ELSE [done |-> TRUE, sizeUSD |-> finalSizeUSD, quantity |-> finalSizeUSD, price |-> 1]

NoSizeArgs == [balance |-> 0, symbol |-> "", signalStrength |-> 0, confidence |-> 0, currentPrice |-> Null]

NoSizeRet == [done |-> FALSE, sizeUSD |-> 0, quantity |-> 0, price |-> 0]

SizeIdle ==
    /\ sizeArgs = NoSizeArgs
    /\ sizeRet = NoSizeRet

SizeInit ==
    /\ sizeArgs \in [balance : Balances, symbol : SizeSymbols, signalStrength : SignalStrengths,
                     confidence : Confidences, currentPrice : SizePrices]
    /\ sizeRet = NoSizeRet

CalculatePositionSize ==
    /\ ~sizeRet.done
    /\ sizeRet' = calculatePositionSize(sizeArgs.balance, sizeArgs.symbol, sizeArgs.signalStrength,
                                        sizeArgs.confidence, sizeArgs.currentPrice)
    /\ UNCHANGED sizeArgs
    /\ UNCHANGED nonSizeVars

SizeNext == CalculatePositionSize

-----------------------------------------------------------------------------
(* RiskManager: portfolio gates.  The clock advances in half days: Date.now() *)
(* is now, the calendar day of toDateString() is now \div 2 and the hour of    *)
(* getUTCHours() is 0 or 12.                                                   *)

\* the clock stops here
MaxNow == 3

\* config.riskManagement.dailyLossLimit, in the units of pnl
ConfigDailyLossLimit == 10

\* new Date().toDateString()
Day(t) == t \div 2

\* the passage of half a day
Tick ==
    /\ now < MaxNow
    /\ now' = now + 1
    /\ UNCHANGED <<positions, trades, dailyLoss, dailyProfit, totalDrawdown, peakBalance,
                   lastResetDate, ret, calls>>
    /\ UNCHANGED nonRiskVars

\* the counters checkDailyLossLimit leaves behind: reset when the day differs from lastResetDate
DailyCounters ==
    IF Day(now) # lastResetDate
    THEN [dailyLoss |-> 0, dailyProfit |-> 0, lastResetDate |-> Day(now)]
    ELSE [dailyLoss |-> dailyLoss, dailyProfit |-> dailyProfit, lastResetDate |-> lastResetDate]

checkDailyLossLimit ==
    /\ dailyLoss' = DailyCounters.dailyLoss
    /\ dailyProfit' = DailyCounters.dailyProfit
    /\ lastResetDate' = DailyCounters.lastResetDate
    /\ ret' = [op |-> "checkDailyLossLimit",
               value |-> DailyCounters.dailyLoss < ConfigDailyLossLimit]
    /\ UNCHANGED <<positions, trades, totalDrawdown, peakBalance, now>>

CheckDailyLossLimit ==
    /\ calls < MaxCalls
    /\ UNCHANGED nonRiskVars
    /\ calls' = calls + 1
    /\ checkDailyLossLimit

\* config.riskManagement.maxDrawdown, in thousandths of the peak balance
ConfigMaxDrawdown == 200

\* config.riskManagement.tradingHours, UTC hours
ConfigTradingHours == [start |-> 6, end |-> 18]

\* config.trading.maxPositions
ConfigMaxPositions == 1

\* config.trading.minSignalStrength, in tenths
ConfigMinSignalStrength == 6

\* config.trading.minConfidence, in percent
ConfigMinConfidence == 50

GateBalances == {0, 80, 100}
GateStrengths == {5, 9}
GateConfidences == {40, 80}
GatePrices == {Null, 30000}

\* new Date().getUTCHours()
Hour(t) == (t % 2) * 12

\* the peak and the drawdown checkMaxDrawdown leaves behind, the drawdown in thousandths;
\* 0 / 0 is NaN
Drawdown(currentBalance) ==
    IF currentBalance > peakBalance
    THEN [peakBalance |-> currentBalance, totalDrawdown |-> 0]
    ELSE [peakBalance |-> peakBalance,
          totalDrawdown |-> IF peakBalance = 0 THEN NaN
                            ELSE ((peakBalance - currentBalance) * 1000) \div peakBalance]

\* totalDrawdown < config.riskManagement.maxDrawdown; a comparison with NaN is false
checkMaxDrawdown(currentBalance) ==
    /\ Drawdown(currentBalance).totalDrawdown # NaN
    /\ Drawdown(currentBalance).totalDrawdown < ConfigMaxDrawdown

checkTradingHours == Hour(now) >= ConfigTradingHours.start /\ Hour(now) <= ConfigTradingHours.end

canOpenNewPosition == Len(positions) < ConfigMaxPositions

\* the checks object of canTrade
Checks(signalStrength, currentBalance, confidence) ==
    [dailyLossLimit |-> DailyCounters.dailyLoss < ConfigDailyLossLimit,
     maxDrawdown |-> checkMaxDrawdown(currentBalance),
     tradingHours |-> checkTradingHours,
     maxPositions |-> canOpenNewPosition,
     signalStrength |-> signalStrength >= ConfigMinSignalStrength,
     confidence |-> confidence >= ConfigMinConfidence]

\* a verdict that leaves the confidence check out
EveryCheckButConfidence(checks) ==
    /\ checks.dailyLossLimit
    /\ checks.maxDrawdown
    /\ checks.tradingHours
    /\ checks.maxPositions
    /\ checks.signalStrength

\* Object.values(checks).every(check => check === true)
EveryCheck(checks) ==
    /\ checks.dailyLossLimit
    /\ checks.maxDrawdown
    /\ checks.tradingHours
    /\ checks.maxPositions
    /\ checks.signalStrength
    /\ checks.confidence

\* the value canTrade returns for its checks
CanTradeResult(checks, symbol, signalStrength, currentBalance, confidence, currentPrice) ==
    [canTrade |-> EveryCheck(checks), checks |-> checks,
     positionSize |-> IF EveryCheck(checks)
                      THEN calculatePositionSize(currentBalance, symbol, signalStrength,
                                                 confidence, currentPrice)
                      ELSE NullObject]

\* canTrade with the state changes of checkDailyLossLimit and checkMaxDrawdown
canTrade(symbol, signalStrength, currentBalance, confidence, currentPrice) ==
    /\ dailyLoss' = DailyCounters.dailyLoss
    /\ dailyProfit' = DailyCounters.dailyProfit
    /\ lastResetDate' = DailyCounters.lastResetDate
    /\ peakBalance' = Drawdown(currentBalance).peakBalance
    /\ totalDrawdown' = Drawdown(currentBalance).totalDrawdown
    /\ ret' = [op |-> "canTrade", signalStrength |-> signalStrength, confidence |-> confidence,
               value |-> CanTradeResult(Checks(signalStrength, currentBalance, confidence), symbol,
                                        signalStrength, currentBalance, confidence, currentPrice)]
    /\ UNCHANGED <<positions, trades, now>>

CanTrade ==
    /\ calls < MaxCalls
    /\ UNCHANGED nonRiskVars
    /\ calls' = calls + 1
    /\ \E signalStrength \in GateStrengths, currentBalance \in GateBalances,
          confidence \in GateConfidences, currentPrice \in GatePrices :
        canTrade("BTCUSDT", signalStrength, currentBalance, confidence, currentPrice)

GateNext ==
    \/ AddPosition
    \/ ClosePosition
    \/ Tick
    \/ CheckDailyLossLimit

\* the record closePosition("XRPUSDT", 106, "manual") leaves in trades for a short of 2 opened at 100
LosingTrade ==
    [NewPosition("XRPUSDT", "Sell", 2, 100, Null, Null, Null)
        EXCEPT !.exitPrice = 106, !.exitTime = now, !.status = "closed", !.reason = "manual",
               !.pnl = calculatePnL(NewPosition("XRPUSDT", "Sell", 2, 100, Null, Null, Null), 106)]

\* a RiskManager in the first half day after its construction: it has or has not closed a
\* short on XRPUSDT at a loss of 12, and it has or has not opened a long on BTCUSDT since
TradeInit ==
    /\ now = 0
    /\ lastResetDate = 0
    /\ totalDrawdown = 0
    /\ peakBalance = 0
    /\ dailyProfit = 0
    /\ \E hadLoss \in BOOLEAN, open \in BOOLEAN :
        /\ trades = (IF hadLoss THEN <<LosingTrade>> ELSE << >>)
        /\ dailyLoss = (IF hadLoss THEN Abs(LosingTrade.pnl) ELSE 0)
        /\ positions = (IF open
                        THEN <<[key |-> "BTCUSDT",
                                value |-> NewPosition("BTCUSDT", "Buy", 2, 100, Null, Null, Null)]>>
                        ELSE << >>)
        /\ calls = (IF hadLoss THEN 2 ELSE 0) + (IF open THEN 1 ELSE 0)
        /\ ret = (IF open
                  THEN [op |-> "addPosition", symbol |-> "BTCUSDT", existed |-> FALSE,
                        rejected |-> FALSE,
                        value |-> NewPosition("BTCUSDT", "Buy", 2, 100, Null, Null, Null)]
                  ELSE IF hadLoss
                  THEN [op |-> "closePosition", symbol |-> "XRPUSDT", found |-> TRUE,
                        value |-> LosingTrade]
                  ELSE [op |-> "constructor"])

\* a call of checkMaxDrawdown on its own
CheckMaxDrawdown ==
    /\ calls < MaxCalls
    /\ UNCHANGED nonRiskVars
    /\ calls' = calls + 1
    /\ \E currentBalance \in GateBalances :
        /\ peakBalance' = Drawdown(currentBalance).peakBalance
        /\ totalDrawdown' = Drawdown(currentBalance).totalDrawdown
        /\ ret' = [op |-> "checkMaxDrawdown", balance |-> currentBalance,
                   value |-> checkMaxDrawdown(currentBalance)]
        /\ UNCHANGED <<positions, trades, dailyLoss, dailyProfit, lastResetDate, now>>

\* config.trading.takeProfit, in percent
ConfigTakeProfit == 4

\* the positions executeTrade leaves: nothing is done without a price, below the minimum
\* quantity, or when the exchange refuses the order
executeTrade(symbol, side, signalStrength, balance, confidence, currentPrice, orderOk) ==
    IF currentPrice = Null \/ currentPrice = 0
    THEN positions
    ELSE LET positionSizeData == calculatePositionSize(balance, symbol, signalStrength,
                                                       confidence, currentPrice)
             stopLoss == IF side = "Buy"
                         THEN (currentPrice * (100 - ConfigStopLoss)) \div 100
                         ELSE (currentPrice * (100 + ConfigStopLoss)) \div 100
             takeProfit == IF side = "Buy"
                           THEN (currentPrice * (100 + ConfigTakeProfit)) \div 100
                           ELSE (currentPrice * (100 - ConfigTakeProfit)) \div 100
         IN  IF positionSizeData.quantity < getMinQty(symbol) \/ ~orderOk
             THEN positions
             ELSE MapSet(positions, symbol,
                         NewPosition(symbol, side, positionSizeData.quantity, currentPrice,
                                     stopLoss, takeProfit, Null))

\* executeBuyDecision(symbol, decision): currentPrice is what getCurrentPrice(symbol) returns,
\* null for an empty history; canTrade is asked before the price is looked at
ExecuteBuyDecision ==
    /\ calls < MaxCalls
    /\ UNCHANGED nonRiskVars
    /\ calls' = calls + 1
    /\ \E signalStrength \in GateStrengths, balance \in GateBalances,
          confidence \in GateConfidences, currentPrice \in GatePrices, orderOk \in BOOLEAN :
        LET result == CanTradeResult(Checks(signalStrength, balance, confidence), "BTCUSDT",
                                     signalStrength, balance, confidence, currentPrice)
        IN  /\ dailyLoss' = DailyCounters.dailyLoss
            /\ dailyProfit' = DailyCounters.dailyProfit
            /\ lastResetDate' = DailyCounters.lastResetDate
            /\ peakBalance' = Drawdown(balance).peakBalance
            /\ totalDrawdown' = Drawdown(balance).totalDrawdown
            /\ positions' = IF result.canTrade
                            THEN executeTrade("BTCUSDT", "Buy", signalStrength, balance,
                                              confidence, currentPrice, orderOk)
                            ELSE positions
            /\ ret' = [op |-> "executeBuyDecision", symbol |-> "BTCUSDT",
                       price |-> currentPrice, value |-> result]
            /\ UNCHANGED <<trades, now>>

TradeNext ==
    \/ Tick
    \/ CanTrade
    \/ CheckMaxDrawdown
    \/ ExecuteBuyDecision

-----------------------------------------------------------------------------
(* Time-based closes: RiskManager.checkTimeBasedCloses and the position       *)
(* analysis of TradingBot.analyzeExistingPositions.                           *)

\* maxHoldTime = 24 * 60 * 60 * 1000 ms, in half days
MaxHoldTime == 2

\* a limit of 48 hours
IsOverdueAfterTwoDays(position) == now - position.timestamp > 2 * MaxHoldTime

\* now - position.timestamp > maxHoldTime
IsOverdue(position) == now - position.timestamp > MaxHoldTime

checkTimeBasedCloses ==
    LET overdue == SelectSeq(positions, LAMBDA e : IsOverdue(e.value))
    IN  /\ ret' = [op |-> "checkTimeBasedCloses",
                   value |-> [i \in DOMAIN overdue |->
                                [symbol |-> overdue[i].key, reason |-> "time_limit"]]]
        /\ UNCHANGED <<positions, trades, dailyLoss, dailyProfit, totalDrawdown, peakBalance,
                       lastResetDate, now>>

CheckTimeBasedCloses ==
    /\ calls < MaxCalls
    /\ UNCHANGED nonRiskVars
    /\ calls' = calls + 1
    /\ checkTimeBasedCloses

\* action and reason of analyzeExistingPositions for a position with a price;
\* pnlPercent = pnl / (entryPrice * size) is compared as pnl * 100 against percent * entryPrice * size
PositionVerdict(position, currentPrice) ==
    LET pnl == calculatePnL(position, currentPrice)
        notional == position.entryPrice * position.size
    IN  IF pnl * 100 <= (0 - ConfigStopLoss) * notional
        THEN [exists |-> TRUE, action |-> "close", reason |-> "stop_loss"]
        ELSE IF pnl * 100 >= ConfigTakeProfit * notional
        THEN [exists |-> TRUE, action |-> "close", reason |-> "take_profit"]
        ELSE IF IsOverdue(position)
        THEN [exists |-> TRUE, action |-> "close", reason |-> "time_limit"]
        ELSE [exists |-> TRUE, action |-> "hold", reason |-> "normal"]

\* analyzeExistingPositions(symbol); currentPrice is what getCurrentPrice(symbol) returns
analyzeExistingPositions(symbol, currentPrice) ==
    IF ~MapHas(positions, symbol)
    THEN [exists |-> FALSE, action |-> "none", reason |-> NoReason]
    ELSE IF currentPrice = Null \/ currentPrice = 0
    THEN [exists |-> TRUE, action |-> "hold", reason |-> "no_price_data"]
    ELSE PositionVerdict(MapGet(positions, symbol), currentPrice)

AnalyzeExistingPositions ==
    /\ calls < MaxCalls
    /\ UNCHANGED nonRiskVars
    /\ calls' = calls + 1
    /\ \E symbol \in Symbols, currentPrice \in Prices \cup {Null} :
        ret' = [op |-> "analyzeExistingPositions", symbol |-> symbol, price |-> currentPrice,
                value |-> analyzeExistingPositions(symbol, currentPrice)]
    /\ UNCHANGED <<positions, trades, dailyLoss, dailyProfit, totalDrawdown, peakBalance,
                   lastResetDate, now>>

HoldNext ==
    \/ AddPosition
    \/ Tick
    \/ CheckTimeBasedCloses
    \/ AnalyzeExistingPositions

\* the cycle's position analysis next to the stop-loss operations of the RiskManager
StopNext ==
    \/ AddPosition
    \/ SetStopLoss
    \/ UpdateTrailingStop
    \/ AnalyzeExistingPositions

-----------------------------------------------------------------------------
(* TradingBot: the trading loop.  A cycle is one invocation of              *)
(* analyzeAndTrade; between two awaits of an external call it runs without  *)
(* interruption, so a cycle is described by the await it is suspended on.   *)

MaxCycles == 2

\* config.symbols, in the configured order
CycleSymbols == <<"BTCUSDT", "XRPUSDT">>

\* config.technicalAnalysis.trendAnalysis.dailyAnalysis.enabled
DailyAnalysisEnabled == TRUE

ActiveCycles == {c \in DOMAIN cycles : cycles[c].pc # "done"}

\* the reversal check is run again before the next symbol
AfterSymbolChecksAgain(idx) ==
    IF idx < Len(CycleSymbols)
    THEN [pc |-> "closeOrder", idx |-> 0]
    ELSE [pc |-> "balance", idx |-> idx]

\* where a cycle goes once the symbol at idx has been dealt with
AfterSymbol(idx) ==
    IF idx < Len(CycleSymbols)
    THEN [pc |-> "shortKlines", idx |-> idx + 1]
    ELSE [pc |-> "balance", idx |-> idx]

\* performMarketAnalysis, makeTradingDecision and executeTradingDecision for the symbol at idx:
\* a buy, sell or close decision awaits an exchange order, a hold decision awaits nothing
AfterHistory(idx, needsOrder) ==
    IF needsOrder THEN [pc |-> "order", idx |-> idx] ELSE AfterSymbol(idx)

CycleInit ==
    /\ isRunning = FALSE
    /\ tradingInterval = FALSE
    /\ cycles = << >>

\* start(): the bot is marked running and startTradingLoop arms the interval
Start ==
    /\ ~isRunning
    /\ ~tradingInterval
    /\ cycles = << >>
    /\ isRunning' = TRUE
    /\ tradingInterval' = TRUE
    /\ UNCHANGED cycles
    /\ UNCHANGED nonCycleVars

\* stop()
Stop ==
    /\ isRunning
    /\ isRunning' = FALSE
    /\ UNCHANGED <<tradingInterval, cycles>>
    /\ UNCHANGED nonCycleVars

\* the interval callback of startTradingLoop: it calls analyzeAndTrade, which runs up to its
\* first external call: a close order of the reversal check or the kline fetch of the first symbol
TimerFire ==
    /\ tradingInterval
    /\ UNCHANGED nonCycleVars
    /\ IF ~isRunning
       THEN /\ tradingInterval' = FALSE
            /\ UNCHANGED <<isRunning, cycles>>
       ELSE /\ Len(cycles) < MaxCycles
            /\ \E reversalClose \in BOOLEAN :
                cycles' = Append(cycles, IF reversalClose
                                         THEN [pc |-> "closeOrder", idx |-> 0]
                                         ELSE [pc |-> "shortKlines", idx |-> 1])
            /\ UNCHANGED <<isRunning, tradingInterval>>

\* the close order awaited by checkOpenPositionsForTrendReversal returns;
\* the check goes on to a further position to close or the symbol loop starts
ResumeCloseOrder ==
    /\ \E c \in DOMAIN cycles :
        /\ cycles[c].pc = "closeOrder"
        /\ \E another \in BOOLEAN :
            /\ another => cycles[c].idx + 1 < Len(CycleSymbols)
            /\ cycles' = [cycles EXCEPT ![c] = IF another
                                               THEN [pc |-> "closeOrder", idx |-> cycles[c].idx + 1]
                                               ELSE [pc |-> "shortKlines", idx |-> 1]]
    /\ UNCHANGED <<isRunning, tradingInterval>>
    /\ UNCHANGED nonCycleVars

\* getKlineData for the short interval returns or throws; after a throw getHistoricalData
\* substitutes generated candles and returns without fetching the daily series
ResumeShortKlines ==
    /\ \E c \in DOMAIN cycles :
        /\ cycles[c].pc = "shortKlines"
        /\ \E ok \in BOOLEAN, needsOrder \in BOOLEAN :
            cycles' = [cycles EXCEPT ![c] =
                        IF ok /\ DailyAnalysisEnabled
                        THEN [pc |-> "dailyKlines", idx |-> cycles[c].idx]
                        ELSE AfterHistory(cycles[c].idx, needsOrder)]
    /\ UNCHANGED <<isRunning, tradingInterval>>
    /\ UNCHANGED nonCycleVars

\* getKlineData for the daily interval returns or throws
ResumeDailyKlines ==
    /\ \E c \in DOMAIN cycles :
        /\ cycles[c].pc = "dailyKlines"
        /\ \E needsOrder \in BOOLEAN :
            cycles' = [cycles EXCEPT ![c] = AfterHistory(cycles[c].idx, needsOrder)]
    /\ UNCHANGED <<isRunning, tradingInterval>>
    /\ UNCHANGED nonCycleVars

\* the order awaited by executeTradingDecision returns or throws
ResumeOrder ==
    /\ \E c \in DOMAIN cycles :
        /\ cycles[c].pc = "order"
        /\ cycles' = [cycles EXCEPT ![c] = AfterSymbol(cycles[c].idx)]
    /\ UNCHANGED <<isRunning, tradingInterval>>
    /\ UNCHANGED nonCycleVars

\* getWalletBalance awaited by updateBalance returns or throws; the cycle ends
ResumeBalance ==
    /\ \E c \in DOMAIN cycles :
        /\ cycles[c].pc = "balance"
        /\ cycles' = [cycles EXCEPT ![c] = [pc |-> "done", idx |-> cycles[c].idx]]
    /\ UNCHANGED <<isRunning, tradingInterval>>
    /\ UNCHANGED nonCycleVars

CycleNext ==
    \/ Start
    \/ Stop
    \/ TimerFire
    \/ ResumeCloseOrder
    \/ ResumeShortKlines
    \/ ResumeDailyKlines
    \/ ResumeOrder
    \/ ResumeBalance

-----------------------------------------------------------------------------
(* TradingBot: the orders of a cycle.  The cycles of a running bot are      *)
(* followed through the exchange calls they await: the close order of       *)
(* closePosition, the kline fetch of getHistoricalData (its two requests     *)
(* are taken as one wait), the entry order of executeTrade and the balance  *)
(* request.  The interval callback does not wait for the previous cycle.    *)

\* values of this.balance, as updateBalance stored it
OrderBalances == {100}

\* what getCurrentPrice returns for a symbol
OrderPrices == {98, 100}

\* strength and confidence of the signals that recommend an entry
OrderStrengths == {9}
OrderConfidences == {80}

\* what the exchange does with an order: retCode 0, another retCode, or the request throws
OrderResults == {"ok", "rejected", "throws"}

NoOrder == [symbol |-> "", side |-> "", size |-> 0, price |-> 0, stopLoss |-> 0, takeProfit |-> 0]

\* a cycle of analyzeAndTrade: the call it awaits, the index of its symbol, the index of the
\* symbol whose exception its last step caught, the order it sent last, and the symbols of
\* the positions checkOpenPositionsForTrendReversal has still to look at
OrderCycle(pc, idx, thrown, order, rest) ==
    [pc |-> pc, idx |-> idx, thrown |-> thrown, order |-> order, rest |-> rest]

\* a started bot at noon with nothing open
OrderInit ==
    /\ positions = << >>
    /\ trades = << >>
    /\ dailyLoss = 0
    /\ dailyProfit = 0
    /\ totalDrawdown = 0
    /\ peakBalance = 0
    /\ lastResetDate = 0
    /\ now = 1
    /\ ret = [op |-> "constructor"]
    /\ calls = 0
    /\ isRunning = TRUE
    /\ tradingInterval = TRUE
    /\ cycles = << >>

\* the locals of executeTrade when it sends the order, NoOrder when it returns before that
OrderOf(symbol, side, signalStrength, balance, confidence, currentPrice) ==
    IF currentPrice = Null \/ currentPrice = 0
    THEN NoOrder
    ELSE LET positionSizeData == calculatePositionSize(balance, symbol, signalStrength,
                                                       confidence, currentPrice)
         IN  IF positionSizeData.quantity < getMinQty(symbol)
             THEN NoOrder
             ELSE [symbol |-> symbol, side |-> side, size |-> positionSizeData.quantity,
                   price |-> currentPrice,
                   stopLoss |-> IF side = "Buy"
                                THEN (currentPrice * (100 - ConfigStopLoss)) \div 100
                                ELSE (currentPrice * (100 + ConfigStopLoss)) \div 100,
                   takeProfit |-> IF side = "Buy"
                                  THEN (currentPrice * (100 + ConfigTakeProfit)) \div 100
                                  ELSE (currentPrice * (100 - ConfigTakeProfit)) \div 100]

\* the position is added whatever the exchange answered
EntryAcceptedAnyAnswer(result) == result # "throws"

\* orderResult.retCode === 0
EntryAccepted(result) == result = "ok"

\* where cycle c goes once the symbol at idx has been dealt with: the kline fetch of the next
\* symbol, or updateBalance after the last one; thrown is the symbol index of a caught exception
OrderAfterSymbol(c, idx, thrown) ==
    IF idx < Len(CycleSymbols)
    THEN OrderCycle("klines", idx + 1, thrown, cycles[c].order, << >>)
    ELSE OrderCycle("balance", idx, thrown, cycles[c].order, << >>)

\* the exception leaves analyzeAndTrade: the cycle ends in the catch of the interval callback
AfterThrowLeavesLoop(c, idx) == OrderCycle("done", idx, idx, cycles[c].order, << >>)

\* the catch inside the loop over config.symbols
AfterThrow(c, idx) == OrderAfterSymbol(c, idx, idx)

\* TradingBot.closePosition up to its await, in cycle c of the cycles in all: the RiskManager
\* closes the position and the close order is sent; nothing is sent for a symbol without a position
SendClose(all, c, pc, idx, symbol, price, reason, rest) ==
    /\ MapHas(positions, symbol)
    /\ closePosition(symbol, price, reason)
    /\ cycles' = [all EXCEPT ![c] =
                    OrderCycle(pc, idx, 0,
                               [symbol |-> symbol, side |-> MapGet(positions, symbol).side,
                                size |-> MapGet(positions, symbol).size, price |-> price,
                                stopLoss |-> 0, takeProfit |-> 0], rest)]

\* checkOpenPositionsForTrendReversal over the positions of rest: the first of them that is
\* still open and found to have reversed is closed, and the check waits for its close order;
\* with none the loop over the symbols starts.  answer is what is known of the call just awaited
ReversalCheck(all, c, answer, rest) ==
    \/ \E i \in DOMAIN rest, price \in OrderPrices :
        SendClose(all, c, "closeOrder", 0, rest[i], price, "trend_reversal",
                  SubSeq(rest, i + 1, Len(rest)))
    \/ /\ cycles' = [all EXCEPT ![c] = OrderCycle("klines", 1, 0, all[c].order, << >>)]
       /\ ret' = answer
       /\ UNCHANGED <<positions, trades, dailyLoss, dailyProfit, totalDrawdown, peakBalance,
                      lastResetDate, now>>

\* the interval callback of a running bot calls analyzeAndTrade, which starts with the
\* reversal check of the positions open at that time
BeginCycle ==
    /\ tradingInterval
    /\ isRunning
    /\ Len(cycles) < MaxCycles
    /\ ReversalCheck(Append(cycles, OrderCycle("start", 0, 0, NoOrder, << >>)),
                     Len(cycles) + 1, ret, [i \in DOMAIN positions |-> positions[i].key])
    /\ UNCHANGED <<calls, isRunning, tradingInterval>>
    /\ UNCHANGED nonStatVars
    /\ UNCHANGED statVars

\* this.api.closePosition returns or throws: the answer is logged, and the reversal check
\* or the loop over the symbols goes on
ResumeClose ==
    /\ \E c \in DOMAIN cycles, result \in OrderResults :
        LET answer == [op |-> "api.closePosition", symbol |-> cycles[c].order.symbol,
                       result |-> result]
        IN  \/ /\ cycles[c].pc = "closeOrder"
               /\ ReversalCheck(cycles, c, answer, cycles[c].rest)
            \/ /\ cycles[c].pc = "exitOrder"
               /\ cycles' = [cycles EXCEPT ![c] = OrderAfterSymbol(c, cycles[c].idx, 0)]
               /\ ret' = answer
               /\ UNCHANGED <<positions, trades, dailyLoss, dailyProfit, totalDrawdown,
                              peakBalance, lastResetDate, now>>
    /\ UNCHANGED <<calls, isRunning, tradingInterval>>
    /\ UNCHANGED nonStatVars
    /\ UNCHANGED statVars

\* determineRecommendation for a symbol: a position of the symbol is closed or held,
\* without one the analysis recommends an entry or nothing
Recommendations(symbol, currentPrice) ==
    LET position == analyzeExistingPositions(symbol, currentPrice)
    IN  IF position.exists
        THEN IF position.action = "close" THEN {"close_position"} ELSE {"hold_position"}
        ELSE {"buy", "sell", "hold"}

\* getHistoricalData returns; performMarketAnalysis, makeTradingDecision and
\* executeTradingDecision run up to the order they send, or to the exception they throw
ResumeKlines ==
    /\ \E c \in DOMAIN cycles, currentPrice \in OrderPrices, thrown \in BOOLEAN :
        LET idx == cycles[c].idx
            symbol == CycleSymbols[idx]
        IN  /\ cycles[c].pc = "klines"
            /\ IF thrown
               THEN /\ cycles' = [cycles EXCEPT ![c] = AfterThrow(c, idx)]
                    /\ UNCHANGED <<positions, trades, dailyLoss, dailyProfit, totalDrawdown,
                                   peakBalance, lastResetDate, now, ret>>
               ELSE \E action \in Recommendations(symbol, currentPrice) :
                     CASE action = "close_position" ->
                            SendClose(cycles, c, "exitOrder", idx, symbol, currentPrice,
                                      analyzeExistingPositions(symbol, currentPrice).reason, << >>)
                       [] action \in {"hold", "hold_position"} ->
                            /\ cycles' = [cycles EXCEPT ![c] = OrderAfterSymbol(c, idx, 0)]
                            /\ UNCHANGED <<positions, trades, dailyLoss, dailyProfit,
                                           totalDrawdown, peakBalance, lastResetDate, now, ret>>
                       [] action \in {"buy", "sell"} ->
                            \E signalStrength \in OrderStrengths, balance \in OrderBalances,
                               confidence \in OrderConfidences :
                             LET order == OrderOf(symbol, IF action = "buy" THEN "Buy" ELSE "Sell",
                                                  signalStrength, balance, confidence, currentPrice)
                                 allowed == EveryCheck(Checks(signalStrength, balance, confidence))
                             IN  /\ canTrade(symbol, signalStrength, balance, confidence, currentPrice)
                                 /\ cycles' = [cycles EXCEPT ![c] =
                                        IF allowed /\ order # NoOrder
                                        THEN OrderCycle("entryOrder", idx, 0, order, << >>)
                                        ELSE OrderAfterSymbol(c, idx, 0)]
    /\ UNCHANGED <<calls, isRunning, tradingInterval>>
    /\ UNCHANGED nonStatVars
    /\ UNCHANGED statVars

\* this.api.placeOrderWithTPSL returns or throws: with retCode 0 the position is added to
\* the RiskManager, the trade is recorded by the PerformanceMonitor and counted
ResumeEntry ==
    /\ \E c \in DOMAIN cycles, result \in OrderResults :
        LET order == cycles[c].order
        IN  /\ cycles[c].pc = "entryOrder"
            /\ cycles' = [cycles EXCEPT ![c] = OrderAfterSymbol(c, cycles[c].idx, 0)]
            /\ ret' = [op |-> "api.placeOrderWithTPSL", symbol |-> order.symbol, result |-> result]
            /\ positions' = IF EntryAccepted(result)
                            THEN MapSet(positions, order.symbol,
                                        NewPosition(order.symbol, order.side, order.size,
                                                    order.price, order.stopLoss,
                                                    order.takeProfit, Null))
                            ELSE positions
            /\ tradesExecuted' = IF EntryAccepted(result) THEN tradesExecuted + 1 ELSE tradesExecuted
            /\ totalTrades' = IF EntryAccepted(result) THEN totalTrades + 1 ELSE totalTrades
    /\ UNCHANGED <<trades, dailyLoss, dailyProfit, totalDrawdown, peakBalance, lastResetDate, now>>
    /\ UNCHANGED <<calls, isRunning, tradingInterval>>
    /\ UNCHANGED nonStatVars

\* getWalletBalance awaited by updateBalance returns or throws; the cycle ends
ResumeWallet ==
    /\ \E c \in DOMAIN cycles :
        /\ cycles[c].pc = "balance"
        /\ cycles' = [cycles EXCEPT ![c] = [cycles[c] EXCEPT !.pc = "done", !.thrown = 0]]
    /\ UNCHANGED <<isRunning, tradingInterval>>
    /\ UNCHANGED riskVars
    /\ UNCHANGED nonStatVars
    /\ UNCHANGED statVars

OrderNext ==
    \/ BeginCycle
    \/ ResumeClose
    \/ ResumeKlines
    \/ ResumeEntry
    \/ ResumeWallet

-----------------------------------------------------------------------------
(* TechnicalAnalysis: the price history.  The exchange delivers the candle  *)
(* fields as decimal strings; the n-th candle delivered for a key opens at  *)
(* time n.                                                                  *)

\* number of candles delivered for the intraday key
MaxCandles == 502

\* number of candles delivered for the daily key
MaxDailyCandles == 2

\* TechnicalAnalysis.maxHistoryLength
maxHistoryLength == 500

HistoryKeys == {"BTCUSDT", "BTCUSDT_DAILY"}

\* parseFloat on the strings the exchange sends
parseFloat(str) ==
    CASE str = "100" -> 100
      [] str = "101" -> 101
      [] str = "102" -> 102
      [] str = "99" -> 99
      [] str = "7" -> 7
      [] OTHER -> NaN

\* the n-th candle the exchange delivers
KlineAt(n) ==
    [start |-> n,
     open |-> IF n % 2 = 0 THEN "100" ELSE "101",
     high |-> "102",
     low |-> "99",
     close |-> IF n % 2 = 0 THEN "101" ELSE "100",
     volume |-> "7"]

\* the record addCandle stores for a delivered candle
StoredCandle(candle) ==
    [timestamp |-> candle.start,
     open |-> parseFloat(candle.open),
     high |-> parseFloat(candle.high),
     low |-> parseFloat(candle.low),
     close |-> parseFloat(candle.close),
     volume |-> parseFloat(candle.volume)]

\* push, then drop the newest candle instead of the oldest when over capacity
PushedDropNewest(history, candle) ==
    LET pushed == Append(history, StoredCandle(candle))
    IN  IF Len(pushed) > maxHistoryLength THEN SubSeq(pushed, 1, Len(pushed) - 1) ELSE pushed

\* history.push(...) followed by history.shift() when over capacity
Pushed(history, candle) ==
    LET pushed == Append(history, StoredCandle(candle))
    IN  IF Len(pushed) > maxHistoryLength THEN Tail(pushed) ELSE pushed

\* getPriceHistory: the array of the key, or an empty array
getPriceHistory(symbol) ==
    IF symbol \in DOMAIN priceHistory THEN priceHistory[symbol] ELSE << >>

HistoryInit ==
    /\ priceHistory = << >>
    /\ addedCount = [k \in HistoryKeys |-> 0]

\* the function f with key k bound to v
MapPut(f, k, v) == [x \in (DOMAIN f) \cup {k} |-> IF x = k THEN v ELSE f[x]]

addCandle(symbol, candle) ==
    /\ priceHistory' = MapPut(priceHistory, symbol, Pushed(getPriceHistory(symbol), candle))
    /\ addedCount' = [addedCount EXCEPT ![symbol] = @ + 1]
    /\ UNCHANGED nonHistoryVars

AddCandle ==
    \E symbol \in HistoryKeys :
        /\ addedCount[symbol] < (IF symbol = "BTCUSDT" THEN MaxCandles ELSE MaxDailyCandles)
        /\ addCandle(symbol, KlineAt(addedCount[symbol] + 1))

HistoryNext == AddCandle

\* TradingBot.getHistoricalData and TradingBot.handleKlineData feed the history.  The exchange
\* clock is now; the candle of an interval carries the time the interval starts.

\* candles per request: 200 short-term and 300 daily in the code
FetchLimit == 2

\* candles generateMockKlineData produces: 100 in the code
MockCount == 2

\* parseInt on the decimal strings the exchange sends as start times
parseInt(str) ==
    IF \E n \in 0..(MaxNow + 2) : ToString(n) = str
    THEN CHOOSE n \in 0..(MaxNow + 2) : ToString(n) = str
    ELSE NaN

\* response.data.result.list of getKlineData: the candles of the last FetchLimit intervals up
\* to time t, each an array of strings [start, open, high, low, close, volume], oldest first
KlineList(t, step) ==
    LET first == Max(0, t - (FetchLimit - 1) * step)
        count == ((t - first) \div step) + 1
    IN  [i \in 1..count |->
            <<ToString(first + (i - 1) * step), "100", "102", "99", "101", "7">>]

\* the object getHistoricalData hands to addCandle for one array of the list
FromList(candle) ==
    [start |-> parseInt(candle[1]), open |-> candle[2], high |-> candle[3],
     low |-> candle[4], close |-> candle[5], volume |-> candle[6]]

\* generateMockKlineData: MockCount candles ending one interval before Date.now()
generateMockKlineData ==
    [i \in 1..MockCount |->
        [start |-> now - (MockCount - (i - 1)), open |-> "100", high |-> "102",
         low |-> "99", close |-> "101", volume |-> "7"]]

\* a loop of addCandle calls over the candles given
RECURSIVE AddAll(_, _)
AddAll(history, candles) ==
    IF candles = << >> THEN history
    ELSE AddAll(Pushed(history, Head(candles)), Tail(candles))

\* the histories after getHistoricalData(symbol): outcome says which request, if any, throws
getHistoricalData(symbol, outcome) ==
    LET dailySymbol == "BTCUSDT_DAILY"
        shortTermData == [i \in DOMAIN KlineList(now, 1) |-> FromList(KlineList(now, 1)[i])]
        dailyData == [i \in DOMAIN KlineList(2 * Day(now), 2) |->
                        FromList(KlineList(2 * Day(now), 2)[i])]
        afterShort == IF outcome = "shortFailed" THEN getPriceHistory(symbol)
                      ELSE AddAll(getPriceHistory(symbol), shortTermData)
        afterDaily == IF outcome = "ok" /\ DailyAnalysisEnabled
                      THEN AddAll(getPriceHistory(dailySymbol), dailyData)
                      ELSE getPriceHistory(dailySymbol)
        afterCatch == IF outcome = "ok" THEN afterShort
                      ELSE AddAll(afterShort, generateMockKlineData)
    IN  [x \in (DOMAIN priceHistory) \cup {symbol} \cup
                    (IF outcome = "ok" /\ DailyAnalysisEnabled THEN {dailySymbol} ELSE {}) |->
            IF x = symbol THEN afterCatch
            ELSE IF x = dailySymbol THEN afterDaily
            ELSE priceHistory[x]]

FetchOutcomes == {"ok", "shortFailed", "dailyFailed"}

GetHistoricalData ==
    /\ calls < MaxCalls
    /\ calls' = calls + 1
    /\ \E outcome \in FetchOutcomes :
        /\ priceHistory' = getHistoricalData("BTCUSDT", outcome)
        /\ addedCount' = [k \in HistoryKeys |->
                            addedCount[k] + Len(getPriceHistory(k)') - Len(getPriceHistory(k))]
        /\ ret' = [op |-> "getHistoricalData", symbol |-> "BTCUSDT", outcome |-> outcome]
    /\ UNCHANGED <<positions, trades, dailyLoss, dailyProfit, totalDrawdown, peakBalance,
                   lastResetDate, now>>
    /\ UNCHANGED <<sizeVars, cycleVars, signalVars, reversalVars, statVars, wsVars>>

\* websocket messages: topic is given as topic.split('.') yields it
KlineMessages ==
    {[topic |-> <<"kline", "1", "BTCUSDT">>, data |-> <<KlineAt(t)>>] : t \in 0..MaxNow}
        \cup {[topic |-> <<"kline", "1", "BTCUSDT">>, data |-> << >>],
              [topic |-> <<"kline">>, data |-> <<KlineAt(0)>>]}

handleKlineData(message) ==
    IF Len(message.data) > 0 /\ Len(message.topic) >= 3
    THEN MapPut(priceHistory, message.topic[3],
                Pushed(getPriceHistory(message.topic[3]), message.data[1]))
    ELSE priceHistory

\* the exchange sends the candle of the current interval
HandleKlineData ==
    /\ calls < MaxCalls
    /\ calls' = calls + 1
    /\ \E message \in KlineMessages :
        /\ message.data # << >> => message.data[1].start = now
        /\ priceHistory' = handleKlineData(message)
        /\ addedCount' = [k \in HistoryKeys |->
                            addedCount[k] + Len(getPriceHistory(k)') - Len(getPriceHistory(k))]
        /\ ret' = [op |-> "handleKlineData", message |-> message]
    /\ UNCHANGED <<positions, trades, dailyLoss, dailyProfit, totalDrawdown, peakBalance,
                   lastResetDate, now>>
    /\ UNCHANGED <<sizeVars, cycleVars, signalVars, reversalVars, statVars, wsVars>>

FeedNext ==
    \/ Tick
    \/ GetHistoricalData
    \/ HandleKlineData

-----------------------------------------------------------------------------
(* TechnicalAnalysis: indicators and signal fusion.                         *)
(*                                                                          *)
(* The indicator library (technicalindicators) and the numeric features the *)
(* code extracts from the candles (price change, structure counts,          *)
(* volatility, volume ratio) are inputs of the model, drawn from bounded    *)
(* sets; the history decides, through its length and its last close, which  *)
(* of them are available.  Confidences are in thousandths of a point,       *)
(* strengths in millionths, price changes and volatilities in thousandths,  *)
(* MACD values in thousandths.                                              *)

\* config.technicalAnalysis.trendAnalysis: minimum history of analyzeLongTermTrend
MinRequiredData == 200

\* config.technicalAnalysis.trendAnalysis.trendPeriods.short
TrendPeriodShort == 20

\* config.technicalAnalysis.trendAnalysis.trendPeriods.medium
TrendPeriodMedium == 50

\* config.technicalAnalysis.trendAnalysis.trendPeriods.long
TrendPeriodLong == 200

\* config.technicalAnalysis.trendAnalysis.timeFrameWeights, in tenths
TimeFrameWeights == [short |-> 2, medium |-> 3, long |-> 5]

TimeFrameNames == {"short", "medium", "long"}

\* symbol.includes('_DAILY')
IsDailyKey(symbol) == symbol = "BTCUSDT_DAILY"

\* a JavaScript value used as a condition: null, 0 and NaN are falsy
Falsy(x) == x = Null \/ x = 0 \/ x = NaN

\* RSI guard that admits a history of exactly period candles
calculateRSIShortByOne(symbol, period, libRSI) ==
    IF Len(getPriceHistory(symbol)) < period THEN Null ELSE libRSI

\* calculateRSI: libRSI is the last value RSI.calculate returns for the closes
calculateRSI(symbol, period, libRSI) ==
    IF Len(getPriceHistory(symbol)) < period + 1 THEN Null ELSE libRSI

\* calculateMACD: libMACD is the last element MACD.calculate returns
calculateMACD(symbol, slowPeriod, signalPeriod, libMACD) ==
    IF Len(getPriceHistory(symbol)) < slowPeriod + signalPeriod
    THEN NullObject
    ELSE [isNull |-> FALSE, macd |-> libMACD.macd, signal |-> libMACD.signal,
          histogram |-> libMACD.histogram]

\* calculateBollingerBands: libBB is the last element BollingerBands.calculate returns
calculateBollingerBands(symbol, period, libBB) ==
    IF Len(getPriceHistory(symbol)) < period
    THEN NullObject
    ELSE [isNull |-> FALSE, upper |-> libBB.upper, middle |-> libBB.middle, lower |-> libBB.lower]

\* calculateMovingAverages for the periods 9, 21, 50: a period longer than the history is left out
calculateMovingAverages(symbol, libSMA) ==
    LET n == Len(getPriceHistory(symbol))
    IN  [sma_9 |-> IF n >= 9 THEN libSMA.sma_9 ELSE Null,
         sma_21 |-> IF n >= 21 THEN libSMA.sma_21 ELSE Null,
         sma_50 |-> IF n >= 50 THEN libSMA.sma_50 ELSE Null]

getCurrentPrice(symbol) ==
    LET history == getPriceHistory(symbol)
    IN  IF Len(history) > 0 THEN history[Len(history)].close ELSE Null

Count(b) == IF b THEN 1 ELSE 0

analyzeTrend(symbol, libSMA) ==
    LET mas == calculateMovingAverages(symbol, libSMA)
        currentPrice == getCurrentPrice(symbol)
    IN  IF Falsy(currentPrice) \/ Falsy(mas.sma_9) \/ Falsy(mas.sma_21) \/ Falsy(mas.sma_50)
        THEN [trend |-> "neutral", strength |-> 0]
        ELSE LET bullishSignals == Count(mas.sma_9 > mas.sma_21) + Count(mas.sma_21 > mas.sma_50)
                                    + Count(currentPrice > mas.sma_9) + Count(currentPrice > mas.sma_21)
                 bearishSignals == 4 - bullishSignals
             IN  [trend |-> IF bullishSignals > bearishSignals THEN "bullish"
                            ELSE IF bearishSignals > bullishSignals THEN "bearish"
                            ELSE "neutral",
                  strength |-> (Abs(bullishSignals - bearishSignals) * 1000000) \div 4]

\* analyzeTimeFrameTrend: f holds the price change over the window, the counts of
\* analyzeTrendStructure and the value of calculatePeriodVolatility
analyzeTimeFrameTrend(symbol, period, f) ==
    IF Len(getPriceHistory(symbol)) < period
    THEN [direction |-> "neutral", strength |-> 0, confidence |-> 0]
    ELSE LET isDailyData == IsDailyKey(symbol)
             minChangeThreshold == IF isDailyData THEN 50 ELSE 20
             strongChangeThreshold == IF isDailyData THEN 150 ELSE 50
             baseConfidence == IF isDailyData THEN 60000 ELSE 50000
             bullish == f.priceChange > minChangeThreshold /\ f.bullishSignals > f.bearishSignals
             bearish == ~bullish /\ f.priceChange < 0 - minChangeThreshold
                            /\ f.bearishSignals > f.bullishSignals
             c0 == IF bullish \/ bearish
                   THEN Min(baseConfidence + Abs(f.priceChange) * 500, 95000)
                   ELSE 0
             volatilityThreshold == IF isDailyData THEN 50 ELSE 30
             c1 == IF f.volatility > volatilityThreshold THEN (c0 * 8) \div 10 ELSE c0
             c2 == IF isDailyData /\ Abs(f.priceChange) > strongChangeThreshold THEN c1 + 10000 ELSE c1
         IN  [direction |-> IF bullish THEN "bullish" ELSE IF bearish THEN "bearish" ELSE "neutral",
              strength |-> Abs(f.priceChange) * 1000,
              confidence |-> c2]

analyzeEMAPosition(currentPrice, ema50, ema100, ema200) ==
    LET bullishSignals == Count(ema50 > ema100) + Count(ema100 > ema200) + Count(currentPrice > ema50)
                            + Count(currentPrice > ema100) + Count(currentPrice > ema200)
        bearishSignals == 5 - bullishSignals
        ema50_100_distance == (Abs(ema50 - ema100) * 1000000) \div ema100
        ema100_200_distance == (Abs(ema100 - ema200) * 1000000) \div ema200
    IN  [direction |-> IF bullishSignals > bearishSignals THEN "bullish"
                       ELSE IF bearishSignals > bullishSignals THEN "bearish"
                       ELSE "neutral",
         confidence |-> Min(ema50_100_distance + ema100_200_distance, 50000)]

\* the sum over the three time frames of value * weight
WeightedSum(values) ==
    (values.short * TimeFrameWeights.short) \div 10
        + (values.medium * TimeFrameWeights.medium) \div 10
        + (values.long * TimeFrameWeights.long) \div 10

calculateOverallTrend(timeFrames, emaAnalysis) ==
    LET bullish == [t \in TimeFrameNames |->
                        IF timeFrames[t].direction = "bullish" THEN timeFrames[t].strength ELSE 0]
        bearish == [t \in TimeFrameNames |->
                        IF timeFrames[t].direction = "bearish" THEN timeFrames[t].strength ELSE 0]
        confident == [t \in TimeFrameNames |->
                        IF timeFrames[t].direction # "neutral" THEN timeFrames[t].confidence ELSE 0]
        bullishScore == WeightedSum(bullish)
                            + (IF emaAnalysis.direction = "bullish" THEN 200000 ELSE 0)
        bearishScore == WeightedSum(bearish)
                            + (IF emaAnalysis.direction = "bearish" THEN 200000 ELSE 0)
        totalConfidence == WeightedSum(confident)
                            + (IF emaAnalysis.direction # "neutral"
                               THEN (emaAnalysis.confidence * 2) \div 10 ELSE 0)
        strength == Abs(bullishScore - bearishScore)
    IN  [direction |-> IF bullishScore > bearishScore /\ strength > 300000 THEN "bullish"
                       ELSE IF bearishScore > bullishScore /\ strength > 300000 THEN "bearish"
                       ELSE "neutral",
         strength |-> strength,
         confidence |-> Min(totalConfidence, 100000)]

determineTrendRecommendation(overallTrend, timeFrames) ==
    LET direction == overallTrend.direction
        consistentDirections == Cardinality({t \in TimeFrameNames : timeFrames[t].direction = direction})
        total == Cardinality(TimeFrameNames)
    IN  IF overallTrend.confidence < 30000 THEN "insufficient_data"
        ELSE IF overallTrend.strength < 300000 THEN "weak_trend"
        ELSE IF consistentDirections * 10 >= 7 * total /\ overallTrend.confidence >= 60000
             THEN (IF direction = "bullish" THEN "strong_buy" ELSE "strong_sell")
        ELSE IF consistentDirections * 10 >= 5 * total /\ overallTrend.confidence >= 40000
             THEN (IF direction = "bullish" THEN "moderate_buy" ELSE "moderate_sell")
        ELSE IF consistentDirections * 10 >= 3 * total /\ overallTrend.confidence >= 30000
             THEN (IF direction = "bullish" THEN "weak_buy" ELSE "weak_sell")
        ELSE "mixed_signals"

\* the record analyzeLongTermTrend returns for an overall trend
LongTermResult(overallTrend, timeFrames) ==
    [direction |-> overallTrend.direction,
     strength |-> overallTrend.strength,
     confidence |-> overallTrend.confidence,
     recommendation |-> determineTrendRecommendation(overallTrend, timeFrames)]

\* analyzeLongTermTrend once the three windows and the EMA position are analysed
TrendOfTimeFrames(timeFrames, emaAnalysis) ==
    LongTermResult(calculateOverallTrend(timeFrames, emaAnalysis), timeFrames)

\* analyzeLongTermTrend: f holds the last EMA values and the features of the three windows
analyzeLongTermTrend(symbol, f) ==
    IF Len(getPriceHistory(symbol)) < MinRequiredData
    THEN [direction |-> "neutral", strength |-> 0, confidence |-> 0, recommendation |-> "insufficient_data"]
    ELSE TrendOfTimeFrames(
            [short |-> analyzeTimeFrameTrend(symbol, TrendPeriodShort, f.short),
             medium |-> analyzeTimeFrameTrend(symbol, TrendPeriodMedium, f.medium),
             long |-> analyzeTimeFrameTrend(symbol, TrendPeriodLong, f.long)],
            analyzeEMAPosition(getCurrentPrice(symbol), f.ema50, f.ema100, f.ema200))

\* analyzeVolume: f holds volumeConfirmation and the OBV trend
analyzeVolume(symbol, f) ==
    IF Len(getPriceHistory(symbol)) < 20
    THEN NullObject
    ELSE [isNull |-> FALSE, obvTrend |-> f.obvTrend, volumeConfirmation |-> f.volumeConfirmation]

\* getVolatilityRank: rank is the class of the current volatility among the window samples
getVolatilityRank(symbol, rank) ==
    IF Len(getPriceHistory(symbol)) < 100 THEN "medium" ELSE rank

calculateVolatility(symbol, period, rank) ==
    IF Len(getPriceHistory(symbol)) < period
    THEN NullObject
    ELSE [isNull |-> FALSE, volatilityRank |-> getVolatilityRank(symbol, rank)]

\* analyzeRSIAdvanced: priceTrend and rsiTrend are calculateTrend of the last 20 closes and RSI values
analyzeRSIAdvanced(symbol, rsi, priceTrend, rsiTrend) ==
    IF Len(getPriceHistory(symbol)) < 30 \/ Len(getPriceHistory(symbol)) < 20 + 14
    THEN [signal |-> "neutral", strength |-> 0, confidence |-> 0]
    ELSE LET classic ==
                IF rsi < 25 THEN [signal |-> "bullish", strength |-> 1200000, confidence |-> 25000]
                ELSE IF rsi > 75 THEN [signal |-> "bearish", strength |-> 1200000, confidence |-> 25000]
                ELSE IF rsi < 35 /\ rsi > 30
                     THEN [signal |-> "bullish", strength |-> 800000, confidence |-> 15000]
                ELSE IF rsi > 65 /\ rsi < 70
                     THEN [signal |-> "bearish", strength |-> 800000, confidence |-> 15000]
                ELSE [signal |-> "neutral", strength |-> 0, confidence |-> 0]
         IN  IF priceTrend < 0 /\ rsiTrend > 0 /\ rsi < 50
             THEN [signal |-> "bullish", strength |-> Max(classic.strength, 1500000),
                   confidence |-> classic.confidence + 20000]
             ELSE IF priceTrend > 0 /\ rsiTrend < 0 /\ rsi > 50
             THEN [signal |-> "bearish", strength |-> Max(classic.strength, 1500000),
                   confidence |-> classic.confidence + 20000]
             ELSE classic

\* analyzeMACDAdvanced: macdTrend is calculateTrend of the last 20 MACD values
analyzeMACDAdvanced(symbol, macd, priceTrend, macdTrend) ==
    IF Len(getPriceHistory(symbol)) < 30
    THEN [signal |-> "neutral", strength |-> 0, confidence |-> 0]
    ELSE LET crossing ==
                IF macd.macd > macd.signal /\ macd.histogram > 0
                THEN [signal |-> "bullish",
                      strength |-> IF macd.histogram > 1 THEN 1300000 ELSE 1000000,
                      confidence |-> IF macd.histogram > 1 THEN 30000 ELSE 20000]
                ELSE IF macd.macd < macd.signal /\ macd.histogram < 0
                THEN [signal |-> "bearish",
                      strength |-> IF macd.histogram < 0 - 1 THEN 1300000 ELSE 1000000,
                      confidence |-> IF macd.histogram < 0 - 1 THEN 30000 ELSE 20000]
                ELSE [signal |-> "neutral", strength |-> 0, confidence |-> 0]
             \* calculateMACDHistory(symbol, 20) is null below 46 candles
             hasMACDHistory == Len(getPriceHistory(symbol)) >= 20 + 26
         IN  IF hasMACDHistory /\ priceTrend < 0 /\ macdTrend > 0
             THEN [signal |-> "bullish", strength |-> Max(crossing.strength, 1400000),
                   confidence |-> crossing.confidence + 25000]
             ELSE IF hasMACDHistory /\ priceTrend > 0 /\ macdTrend < 0
             THEN [signal |-> "bearish", strength |-> Max(crossing.strength, 1400000),
                   confidence |-> crossing.confidence + 25000]
             ELSE crossing

analyzeBollingerBandsAdvanced(currentPrice, bb) ==
    LET wide == (bb.upper - bb.lower) * 100 > 2 * bb.middle
        narrow == (bb.upper - bb.lower) * 1000 < 15 * bb.middle
    IN  IF currentPrice * 1000 <= bb.lower * 1001 /\ wide
        THEN [signal |-> "bullish", strength |-> 1100000, confidence |-> 20000]
        ELSE IF currentPrice * 1000 >= bb.upper * 999 /\ wide
        THEN [signal |-> "bearish", strength |-> 1100000, confidence |-> 20000]
        ELSE IF currentPrice > bb.upper /\ narrow
        THEN [signal |-> "bullish", strength |-> 1300000, confidence |-> 25000]
        ELSE IF currentPrice < bb.lower /\ narrow
        THEN [signal |-> "bearish", strength |-> 1300000, confidence |-> 25000]
        ELSE [signal |-> "neutral", strength |-> 0, confidence |-> 0]

\* strength * (confidence / 100) capped at 1.0; strength in steps of 0.01, confidence of 0.1
getTrendWeight(longTermTrend) ==
    Min((longTermTrend.strength \div 10000) * (longTermTrend.confidence \div 100) * 10, 1000000)

checkTrendAlignment(longTermTrend, rsiAnalysis, macdAnalysis) ==
    IF longTermTrend.direction = "neutral"
    THEN [aligned |-> FALSE, direction |-> "neutral"]
    ELSE LET totalChecks == Count(rsiAnalysis.signal # "neutral") + Count(macdAnalysis.signal # "neutral")
             alignmentScore == Count(rsiAnalysis.signal = longTermTrend.direction)
                                + Count(macdAnalysis.signal = longTermTrend.direction)
         IN  [aligned |-> totalChecks > 0 /\ alignmentScore * 2 >= totalChecks,
              direction |-> longTermTrend.direction]

\* what one indicator adds to the bullish sum, the bearish sum and the confidence
Contribution(signal, strength, confidence, neutralConfidence) ==
    [bullish |-> IF signal = "bullish" THEN strength ELSE 0,
     bearish |-> IF signal = "bearish" THEN strength ELSE 0,
     confidence |-> IF signal \in {"bullish", "bearish"} THEN confidence ELSE neutralConfidence]

NoContribution == [bullish |-> 0, bearish |-> 0, confidence |-> 0]

\* the bonus of step 4 for a strong or moderate recommendation in the trend's direction
RecommendationBonus(longTermTrend) ==
    LET strong == IF longTermTrend.direction = "bullish" THEN "strong_buy" ELSE "strong_sell"
        moderate == IF longTermTrend.direction = "bullish" THEN "moderate_buy" ELSE "moderate_sell"
    IN  IF longTermTrend.recommendation = strong THEN [strength |-> 1000000, confidence |-> 20000]
        ELSE IF longTermTrend.recommendation = moderate THEN [strength |-> 500000, confidence |-> 10000]
        ELSE [strength |-> 0, confidence |-> 0]

\* step 4 of analyzeSignal: the long-term trend
LongTermContribution(longTermTrend) ==
    Contribution(longTermTrend.direction,
                 getTrendWeight(longTermTrend) * 2 + RecommendationBonus(longTermTrend).strength,
                 (longTermTrend.confidence * 8) \div 10 + RecommendationBonus(longTermTrend).confidence,
                 5000)

\* steps 1, 2, 5 of analyzeSignal: an indicator analysis with signal, strength and confidence
AnalysisContribution(analysis) ==
    Contribution(analysis.signal, analysis.strength, analysis.confidence, 5000)

\* step 3 of analyzeSignal: the short-term trend
TrendContribution(trend) ==
    Contribution(trend.trend, trend.strength, (trend.strength * 15) \div 1000, 5000)

\* step 5 of analyzeSignal: the Bollinger bands
BollingerContribution(currentPrice, bb) ==
    IF bb.isNull THEN NoContribution
    ELSE AnalysisContribution(analyzeBollingerBandsAdvanced(currentPrice, bb))

\* step 6 of analyzeSignal: the volume
VolumeContribution(volume) ==
    IF volume.isNull THEN NoContribution
    ELSE IF volume.volumeConfirmation
         THEN Contribution(volume.obvTrend, 800000, 15000, 8000)
         ELSE [bullish |-> 0, bearish |-> 0, confidence |-> 3000]

\* step 7 of analyzeSignal: the volatility rank
VolatilityConfidence(volatility) ==
    IF volatility.isNull THEN 0
    ELSE IF volatility.volatilityRank = "medium" THEN 10000
    ELSE IF volatility.volatilityRank = "low" THEN 5000
    ELSE IF volatility.volatilityRank = "high" THEN 3000
    ELSE 0

\* the confidence returned without the cap at 100
FinalConfidenceUncapped(confidence) == confidence

\* Math.min(confidence, 100)
FinalConfidence(confidence) == Min(confidence, 100000)

\* the base signal returned whatever the long-term trend says
FinalSignalNoVeto(longTermTrend, signal) == signal

\* the final check of analyzeSignal against the long-term trend
FinalSignal(longTermTrend, signal) ==
    IF longTermTrend.direction # "neutral" /\ longTermTrend.confidence > 50000
    THEN IF longTermTrend.direction = "bullish" /\ signal = "buy" THEN "buy"
         ELSE IF longTermTrend.direction = "bearish" /\ signal = "sell" THEN "sell"
         ELSE IF longTermTrend.direction = "bullish" /\ signal = "sell" THEN "neutral"
         ELSE IF longTermTrend.direction = "bearish" /\ signal = "buy" THEN "neutral"
         ELSE signal
    ELSE signal

\* a base signal that follows any majority of the votes
BaseSignalAnyMargin(bullishSignals, bearishSignals, totalSignals, finalConfidence) ==
    IF bullishSignals > bearishSignals /\ finalConfidence > 30000
    THEN "buy"
    ELSE IF bearishSignals > bullishSignals /\ finalConfidence > 30000
    THEN "sell"
    ELSE "neutral"

\* the base signal of analyzeSignal; signalStrength > 0.4 with
\* signalStrength = |bullishSignals - bearishSignals| / totalSignals
BaseSignal(bullishSignals, bearishSignals, totalSignals, finalConfidence) ==
    LET strongEnough == Abs(bullishSignals - bearishSignals) * 10 > 4000000 * totalSignals
    IN  IF bullishSignals > bearishSignals /\ strongEnough /\ finalConfidence > 30000
        THEN "buy"
        ELSE IF bearishSignals > bullishSignals /\ strongEnough /\ finalConfidence > 30000
        THEN "sell"
        ELSE "neutral"

\* the end of analyzeSignal: strength, capped confidence, base signal and final check
Decision(local, bullishSignals, bearishSignals, totalSignals, confidence) ==
    LET difference == Abs(bullishSignals - bearishSignals)
        finalConfidence == FinalConfidence(confidence)
        signal == BaseSignal(bullishSignals, bearishSignals, totalSignals, finalConfidence)
    IN  [done |-> TRUE, signal |-> FinalSignal(local.longTermTrend, signal),
         strength |-> difference \div totalSignals, confidence |-> finalConfidence,
         early |-> FALSE, baseSignal |-> signal,
         bullishSignals |-> bullishSignals, bearishSignals |-> bearishSignals,
         totalSignals |-> totalSignals,
         rsi |-> local.rsi, macdIsNull |-> local.macdIsNull, bbIsNull |-> local.bbIsNull,
         longTermTrend |-> local.longTermTrend]

\* step 8 of analyzeSignal: the alignment bonus or the 0.7 penalty, then the decision
Aligned(local, trendAlignment, bullishSignals, bearishSignals, totalSignals, confidence) ==
    Decision(local,
             bullishSignals
                + (IF trendAlignment.aligned /\ trendAlignment.direction = "bullish" THEN 500000 ELSE 0),
             bearishSignals
                + (IF trendAlignment.aligned /\ trendAlignment.direction = "bearish" THEN 500000 ELSE 0),
             totalSignals,
             IF trendAlignment.aligned THEN confidence + 15000 ELSE (confidence * 7) \div 10)

\* steps 1 to 7 of analyzeSignal: the sums over the indicator contributions
Fusion(local, rsiAnalysis, macdAnalysis, c1, c2, c3, c4, c5, c6, volatilityConfidence, totalSignals) ==
    Aligned(local,
            checkTrendAlignment(local.longTermTrend, rsiAnalysis, macdAnalysis),
            c1.bullish + c2.bullish + c3.bullish + c4.bullish + c5.bullish + c6.bullish,
            c1.bearish + c2.bearish + c3.bearish + c4.bearish + c5.bearish + c6.bearish,
            totalSignals,
            c1.confidence + c2.confidence + c3.confidence + c4.confidence
                + c5.confidence + c6.confidence + volatilityConfidence)

\* analyzeSignal once RSI and MACD are analysed
Analysed(local, rsiAnalysis, macdAnalysis, trend, bb, currentPrice, volume, volatility) ==
    Fusion(local, rsiAnalysis, macdAnalysis,
           AnalysisContribution(rsiAnalysis),
           AnalysisContribution(macdAnalysis),
           TrendContribution(trend),
           LongTermContribution(local.longTermTrend),
           BollingerContribution(currentPrice, bb),
           VolumeContribution(volume),
           VolatilityConfidence(volatility),
           4 + Count(~bb.isNull) + Count(~volume.isNull))

\* analyzeSignal once the indicators are computed
Computed(symbol, lib, rsi, macd, trend, longTermTrend, bb, currentPrice, volume, volatility) ==
    IF Falsy(rsi) \/ macd.isNull \/ Falsy(currentPrice)
    THEN [done |-> TRUE, signal |-> "neutral", strength |-> 0, confidence |-> 0,
          early |-> TRUE, baseSignal |-> "neutral",
          bullishSignals |-> 0, bearishSignals |-> 0, totalSignals |-> 0,
          rsi |-> rsi, macdIsNull |-> macd.isNull, bbIsNull |-> bb.isNull,
          longTermTrend |-> longTermTrend]
    ELSE Analysed([rsi |-> rsi, macdIsNull |-> macd.isNull, bbIsNull |-> bb.isNull,
                   longTermTrend |-> longTermTrend],
                  analyzeRSIAdvanced(symbol, rsi, lib.priceTrend, lib.rsiTrend),
                  analyzeMACDAdvanced(symbol, macd, lib.priceTrend, lib.macdTrend),
                  trend, bb, currentPrice, volume, volatility)

\* analyzeSignal; besides signal, strength and confidence the record keeps the
\* locals rsi, macd, bb, the base signal and the long-term trend
analyzeSignal(symbol, lib) ==
    Computed(symbol, lib,
             calculateRSI(symbol, 14, lib.rsi),
             calculateMACD(symbol, 26, 9, lib.macd),
             analyzeTrend(symbol, lib.sma),
             analyzeLongTermTrend(symbol, lib.trend),
             calculateBollingerBands(symbol, 20, lib.bb),
             getCurrentPrice(symbol),
             analyzeVolume(symbol, lib.volume),
             calculateVolatility(symbol, 20, lib.volatilityRank))

(* Input sets of the signal analysis *)

\* history lengths around every availability threshold of the indicators
HistoryLengths == {0, 14, 15, 19, 20, 34, 35, 45, 46, 49, 50, 99, 100, 199, 200}

RsiValues == {0, 20, 50, 68, 80}

MacdValues ==
    {[macd |-> 5, signal |-> 3, histogram |-> 2],
     [macd |-> 3, signal |-> 5, histogram |-> 0 - 2],
     [macd |-> 0, signal |-> 0, histogram |-> 0]}

\* calculateTrend of the recent closes, RSI values and MACD values
TrendValues ==
    {[priceTrend |-> 0 - 10, rsiTrend |-> 10, macdTrend |-> 10],
     [priceTrend |-> 10, rsiTrend |-> 0 - 10, macdTrend |-> 0 - 10],
     [priceTrend |-> 10, rsiTrend |-> 10, macdTrend |-> 10]}

SmaValues ==
    {[sma_9 |-> 99, sma_21 |-> 98, sma_50 |-> 97],
     [sma_9 |-> 105, sma_21 |-> 106, sma_50 |-> 107],
     [sma_9 |-> 102, sma_21 |-> 101, sma_50 |-> 100]}

BbValues ==
    {[upper |-> 120, middle |-> 100, lower |-> 80],
     [upper |-> 120, middle |-> 110, lower |-> 101],
     [upper |-> 104, middle |-> 103, lower |-> 103]}

VolumeValues ==
    {[volumeConfirmation |-> TRUE, obvTrend |-> "bullish"],
     [volumeConfirmation |-> TRUE, obvTrend |-> "bearish"],
     [volumeConfirmation |-> FALSE, obvTrend |-> "bullish"]}

VolatilityRanks == {"medium", "high"}

\* price change, structure counts and volatility of one time-frame window
FrameValues ==
    {[priceChange |-> 500, bullishSignals |-> 2, bearishSignals |-> 1, volatility |-> 10],
     [priceChange |-> 0 - 500, bullishSignals |-> 1, bearishSignals |-> 2, volatility |-> 40],
     [priceChange |-> 10, bullishSignals |-> 1, bearishSignals |-> 1, volatility |-> 10],
     [priceChange |-> 1000, bullishSignals |-> 2, bearishSignals |-> 1, volatility |-> 10]}

EmaValues ==
    {[ema50 |-> 100, ema100 |-> 50, ema200 |-> 25],
     [ema50 |-> 150, ema100 |-> 200, ema200 |-> 400]}

\* the features analyzeLongTermTrend reads; the short and the medium window move together
LongTermValues ==
    {[short |-> m, medium |-> m, long |-> l, ema50 |-> e.ema50, ema100 |-> e.ema100, ema200 |-> e.ema200] :
        m \in FrameValues, l \in FrameValues, e \in EmaValues}

\* the history addCandle builds from the first n candles
HistoryOfLength(n) == [i \in 1..n |-> StoredCandle(KlineAt(i))]

NoSignal == [done |-> FALSE]

SignalIdle == signalRet = NoSignal

\* a TechnicalAnalysis that has received n candles for one symbol and has not analysed it yet
SignalInit ==
    /\ signalRet = NoSignal
    /\ \E n \in HistoryLengths :
        /\ priceHistory = (IF n = 0 THEN << >> ELSE [k \in {"BTCUSDT"} |-> HistoryOfLength(n)])
        /\ addedCount = [k \in HistoryKeys |-> IF k = "BTCUSDT" THEN n ELSE 0]

\* analyzeSignal(symbol) for some outputs of the indicator library.  Below MinRequiredData
\* candles analyzeLongTermTrend returns before it reads the EMA values and the window
\* features, so one value stands for all of them there.
AnalyzeSignal ==
    /\ ~signalRet.done
    /\ UNCHANGED nonSignalVars
    /\ \E rsi \in RsiValues, macd \in MacdValues, trends \in TrendValues, sma \in SmaValues,
          bb \in BbValues, volume \in VolumeValues, rank \in VolatilityRanks :
        \E longTerm \in (IF Len(getPriceHistory("BTCUSDT")) < MinRequiredData
                         THEN {CHOOSE v \in LongTermValues : TRUE} ELSE LongTermValues) :
            signalRet' = analyzeSignal("BTCUSDT",
                [rsi |-> rsi, macd |-> macd, sma |-> sma, bb |-> bb, volume |-> volume,
                 volatilityRank |-> rank, trend |-> longTerm,
                 priceTrend |-> trends.priceTrend, rsiTrend |-> trends.rsiTrend,
                 macdTrend |-> trends.macdTrend])

SignalNext == AnalyzeSignal

\* getVolatilityRank on its own.  The volatility of a window of 20 candles is the standard
\* deviation of its returns; the windows' values and the current value are given in
\* ten-thousandths.
WindowVolatilities == {10, 30}

CurrentVolatilities == {5, 10, 20, 30, 40}

\* the number of windows the loop for (i = 20; i < history.length; i += 20) visits
WindowCount(length) == (length - 1) \div 20

\* volatilities.findIndex(v => v >= currentVolatility), counted from 0; -1 when there is none
findIndex(volatilities, currentVolatility) ==
    IF \E i \in DOMAIN volatilities : volatilities[i] >= currentVolatility
    THEN (CHOOSE i \in DOMAIN volatilities :
            /\ volatilities[i] >= currentVolatility
            /\ \A j \in 1..(i - 1) : volatilities[j] < currentVolatility) - 1
    ELSE 0 - 1

\* the class of rank = findIndex(...) / volatilities.length after volatilities.sort
RankOfVolatility(volatilities, currentVolatility) ==
    LET sorted == SortSeq(volatilities, LAMBDA a, b : a < b)
        index == findIndex(sorted, currentVolatility)
    IN  IF index * 10 < 2 * Len(sorted) THEN "low"
        ELSE IF index * 10 > 8 * Len(sorted) THEN "high"
        ELSE "medium"

GetVolatilityRank ==
    /\ ret.op = "constructor"
    /\ calls' = calls + 1
    /\ \E volatilities \in [1..WindowCount(Len(getPriceHistory("BTCUSDT"))) -> WindowVolatilities],
          currentVolatility \in CurrentVolatilities :
        ret' = [op |-> "getVolatilityRank", volatilities |-> volatilities,
                currentVolatility |-> currentVolatility,
                value |-> getVolatilityRank("BTCUSDT",
                                            RankOfVolatility(volatilities, currentVolatility))]
    /\ UNCHANGED <<positions, trades, dailyLoss, dailyProfit, totalDrawdown, peakBalance,
                   lastResetDate, now>>
    /\ UNCHANGED nonRiskVars

RankNext == GetVolatilityRank

-----------------------------------------------------------------------------
(* TradingBot: detection of a trend reversal against an open position.        *)
(* Reversal strengths are in hundred-thousandths, signal and trend strengths  *)
(* in thousandths, confidences in percent, pnlPercent and the two PnL         *)
(* thresholds in hundredths of a percent.                                     *)

\* config.trading.profitProtection with protection switched on
ProtectionEnabled ==
    [enabled |-> TRUE, minProfitPercent |-> 200, trendReversalThreshold |-> 40000,
     criticalReversalThreshold |-> 60000, lossMinimizationPercent |-> 0 - 100,
     lossMinimizationThreshold |-> 30000]

\* the same section with enabled: false
ProtectionDisabled == [ProtectionEnabled EXCEPT !.enabled = FALSE]

\* the values config.trading.profitProtection takes; NullObject is a config without the section
ProfitProtections == {NullObject, ProtectionDisabled, ProtectionEnabled}

ReversalSides == {"Buy", "Sell"}
ReversalSignals == {"buy", "sell", "neutral"}
ReversalStrengths == {500, 1500}
ReversalConfidences == {20, 100}
ReversalLongTerms ==
    {NullObject, [direction |-> "neutral", confidence |-> 80],
     [direction |-> "bearish", confidence |-> 80], [direction |-> "bullish", confidence |-> 80],
     [direction |-> "bearish", confidence |-> 60]}
ReversalShortTerms ==
    {NullObject, [direction |-> "bearish", strength |-> 50], [direction |-> "bullish", strength |-> 50]}
ReversalRsiValues == {Null, 20, 80}
ReversalMacdValues ==
    {NullObject, [macd |-> 0 - 2, signal |-> 0 - 1, histogram |-> 0 - 1],
     [macd |-> 2, signal |-> 1, histogram |-> 1]}
PnlPercents == {0 - 300, 0, 200, 300}

\* lines 380-440: the six weighted indicators of a reversal
ReversalIndicators(side, signal, longTermTrend, shortTermTrend) ==
    [technicalSignal |->
        IF side = "Buy" /\ signal.signal = "sell" THEN signal.strength * 30
        ELSE IF side = "Sell" /\ signal.signal = "buy" THEN signal.strength * 30
        ELSE 0,
     longTermTrend |->
        IF longTermTrend # NullObject /\ longTermTrend.direction # "neutral"
        THEN IF side = "Buy" /\ longTermTrend.direction = "bearish" /\ longTermTrend.confidence > 60
             THEN longTermTrend.confidence * 350
             ELSE IF side = "Sell" /\ longTermTrend.direction = "bullish" /\ longTermTrend.confidence > 60
             THEN longTermTrend.confidence * 350
             ELSE 0
        ELSE 0,
     shortTermTrend |->
        IF shortTermTrend # NullObject /\ shortTermTrend.direction # "neutral"
        THEN IF side = "Buy" /\ shortTermTrend.direction = "bearish" THEN shortTermTrend.strength * 20
             ELSE IF side = "Sell" /\ shortTermTrend.direction = "bullish" THEN shortTermTrend.strength * 20
             ELSE 0
        ELSE 0,
     rsi |->
        IF ~Falsy(signal.details.rsi_value)
        THEN IF side = "Buy" /\ signal.details.rsi_value > 75 THEN 7500
             ELSE IF side = "Sell" /\ signal.details.rsi_value < 25 THEN 7500
             ELSE 0
        ELSE 0,
     macd |->
        IF signal.details.macd_value # NullObject
        THEN IF /\ side = "Buy"
                /\ signal.details.macd_value.macd < signal.details.macd_value.signal
                /\ signal.details.macd_value.histogram < 0
             THEN 7500
             ELSE IF /\ side = "Sell"
                     /\ signal.details.macd_value.macd > signal.details.macd_value.signal
                     /\ signal.details.macd_value.histogram > 0
             THEN 7500
             ELSE 0
        ELSE 0,
     confidence |-> IF signal.confidence < 30 THEN 0 ELSE signal.confidence * 25]

\* line 443: Object.values(indicators).reduce((sum, val) => sum + val, 0)
ReversalStrength(indicators) ==
    indicators.technicalSignal + indicators.longTermTrend + indicators.shortTermTrend
        + indicators.rsi + indicators.macd + indicators.confidence

\* a guard that only looks for the missing section
ProtectionOffIgnoresFlag(pp) == pp = NullObject

\* line 448: !profitProtection || !profitProtection.enabled
ProtectionOff(pp) == pp = NullObject \/ ~pp.enabled

\* a policy that tests the critical threshold first
ReversalDecisionCriticalFirst(pp, pnlPercent, strength) ==
    IF strength > pp.criticalReversalThreshold
    THEN [shouldClose |-> TRUE, reason |-> "critical_reversal"]
    ELSE IF pnlPercent > pp.minProfitPercent /\ strength > pp.trendReversalThreshold
    THEN [shouldClose |-> TRUE, reason |-> "profit_protection"]
    ELSE IF pnlPercent < pp.lossMinimizationPercent /\ strength > pp.lossMinimizationThreshold
    THEN [shouldClose |-> TRUE, reason |-> "loss_minimization"]
    ELSE [shouldClose |-> FALSE, reason |-> "indicators"]

\* lines 453-467: the if / else-if chain; reason is the prefix the chain puts before the
\* indicator list, "indicators" when it leaves the list alone
ReversalDecision(pp, pnlPercent, strength) ==
    IF pnlPercent > pp.minProfitPercent /\ strength > pp.trendReversalThreshold
    THEN [shouldClose |-> TRUE, reason |-> "profit_protection"]
    ELSE IF strength > pp.criticalReversalThreshold
    THEN [shouldClose |-> TRUE, reason |-> "critical_reversal"]
    ELSE IF pnlPercent < pp.lossMinimizationPercent /\ strength > pp.lossMinimizationThreshold
    THEN [shouldClose |-> TRUE, reason |-> "loss_minimization"]
    ELSE [shouldClose |-> FALSE, reason |-> "indicators"]

\* lines 445-475, once the indicators are summed
ReversalResult(pp, indicators, strength, pnlPercent) ==
    IF ProtectionOff(pp)
    THEN [done |-> TRUE, shouldClose |-> FALSE, reason |-> "protection_disabled",
          strength |-> strength, indicators |-> indicators, pnlPercent |-> pnlPercent]
    ELSE [done |-> TRUE, shouldClose |-> ReversalDecision(pp, pnlPercent, strength).shouldClose,
          reason |-> ReversalDecision(pp, pnlPercent, strength).reason,
          strength |-> strength, indicators |-> indicators, pnlPercent |-> pnlPercent]

\* detectTrendReversal(position, signal, longTermTrend, shortTermTrend, pnlPercent)
detectTrendReversal(pp, position, signal, longTermTrend, shortTermTrend, pnlPercent) ==
    ReversalResult(pp, ReversalIndicators(position.side, signal, longTermTrend, shortTermTrend),
                   ReversalStrength(ReversalIndicators(position.side, signal, longTermTrend, shortTermTrend)),
                   pnlPercent)

NoReversalArgs == [isNull |-> TRUE]

NoReversalRet == [done |-> FALSE]

ReversalIdle ==
    /\ profitProtection = NullObject
    /\ reversalArgs = NoReversalArgs
    /\ reversalRet = NoReversalRet

\* a bot with some configuration about to check one open position
ReversalInit ==
    /\ profitProtection \in ProfitProtections
    /\ reversalArgs \in
        [position : [side : ReversalSides],
         signal : [signal : ReversalSignals, strength : ReversalStrengths,
                   confidence : ReversalConfidences,
                   details : [rsi_value : ReversalRsiValues, macd_value : ReversalMacdValues]],
         longTermTrend : ReversalLongTerms, shortTermTrend : ReversalShortTerms,
         pnlPercent : PnlPercents]
    /\ reversalRet = NoReversalRet

DetectTrendReversal ==
    /\ ~reversalRet.done
    /\ reversalRet' = detectTrendReversal(profitProtection, reversalArgs.position, reversalArgs.signal,
                                          reversalArgs.longTermTrend, reversalArgs.shortTermTrend,
                                          reversalArgs.pnlPercent)
    /\ UNCHANGED <<profitProtection, reversalArgs>>
    /\ UNCHANGED nonReversalVars

ReversalNext == DetectTrendReversal

-----------------------------------------------------------------------------
(* Specifications *)

-----------------------------------------------------------------------------
(* BybitWebSocket: one instance, the sockets it creates and its timers.     *)
(* A socket is connecting, open, closing (after close() or terminate())     *)
(* or closed; its 'close' event is what takes it to closed.                 *)

MaxSockets == 3

\* this.maxReconnectAttempts
maxReconnectAttempts == 10

\* the fields of the instance and its timers as one record
Ws ==
    [publicWs |-> publicWs, sockets |-> sockets, isConnected |-> isConnected,
     reconnectAttempts |-> reconnectAttempts, connectionCheckInterval |-> connectionCheckInterval,
     intervals |-> intervals, reconnectTimers |-> reconnectTimers]

\* the instance after a handler has run
WsBecomes(w) ==
    /\ publicWs' = w.publicWs
    /\ sockets' = w.sockets
    /\ isConnected' = w.isConnected
    /\ reconnectAttempts' = w.reconnectAttempts
    /\ connectionCheckInterval' = w.connectionCheckInterval
    /\ intervals' = w.intervals
    /\ reconnectTimers' = w.reconnectTimers

\* clearInterval(handle): a timer handle is disarmed, a number that names no timer does nothing
clearInterval(timers, handle) ==
    IF handle.kind = "timer" THEN [timers EXCEPT ![handle.id].armed = FALSE] ELSE timers

\* startConnectionMonitoring: the delay handed to setInterval is the value the field
\* connectionCheckInterval holds at the call, and the field then holds the new timer
startConnectionMonitoring(w) ==
    LET cleared == IF w.connectionCheckInterval.kind # "null"
                   THEN clearInterval(w.intervals, w.connectionCheckInterval)
                   ELSE w.intervals
    IN  [w EXCEPT !.intervals = Append(cleared, [delay |-> w.connectionCheckInterval,
                                                 armed |-> TRUE]),
                  !.connectionCheckInterval = [kind |-> "timer", id |-> Len(cleared) + 1]]

stopConnectionMonitoring(w) ==
    IF w.connectionCheckInterval.kind # "null"
    THEN [w EXCEPT !.intervals = clearInterval(w.intervals, w.connectionCheckInterval),
                   !.connectionCheckInterval = [kind |-> "null"]]
    ELSE w

\* reconnectPublic: a connection attempt is scheduled, or after the last attempt a retry
reconnectPublic(w) ==
    IF w.reconnectAttempts < maxReconnectAttempts
    THEN [w EXCEPT !.reconnectAttempts = @ + 1, !.reconnectTimers.connect = @ + 1]
    ELSE [w EXCEPT !.reconnectAttempts = 0, !.reconnectTimers.retry = @ + 1]

\* ws.terminate() and ws.close(): a socket that is connecting or open starts to close
Closing(all, id) ==
    IF all[id].state \in {"connecting", "open"}
    THEN [all EXCEPT ![id].state = "closing"]
    ELSE all

forceReconnect(w) ==
    LET stopped == stopConnectionMonitoring([w EXCEPT !.isConnected = FALSE])
    IN  reconnectPublic(IF stopped.publicWs # Null
                        THEN [stopped EXCEPT !.sockets = Closing(@, stopped.publicWs)]
                        ELSE stopped)

\* connectPublic up to its return: a socket is created and its connection timeout armed
connectPublic(w) ==
    [w EXCEPT !.sockets = Append(@, [state |-> "connecting", timeout |-> TRUE]),
              !.publicWs = Len(w.sockets) + 1]

\* the first connectPublic, called by the bot
ConnectPublic ==
    /\ sockets = << >>
    /\ ~closeCalled
    /\ WsBecomes(connectPublic(Ws))
    /\ UNCHANGED closeCalled
    /\ UNCHANGED nonWsVars

\* the 'open' event of a socket
SocketOpen ==
    /\ \E id \in DOMAIN sockets :
        /\ sockets[id].state = "connecting"
        /\ WsBecomes(startConnectionMonitoring(
                [Ws EXCEPT !.sockets[id].state = "open", !.isConnected = TRUE,
                           !.reconnectAttempts = 0]))
    /\ UNCHANGED closeCalled
    /\ UNCHANGED nonWsVars

\* the 'close' event of a socket: after a failed connection (preceded by 'error'), after the
\* server dropped it, or after close() or terminate()
SocketCloseEvent(id) ==
    WsBecomes(reconnectPublic(stopConnectionMonitoring(
                [Ws EXCEPT !.sockets[id].state = "closed", !.isConnected = FALSE])))

SocketClose ==
    /\ \E id \in DOMAIN sockets :
        /\ sockets[id].state \in {"connecting", "open", "closing"}
        /\ SocketCloseEvent(id)
    /\ UNCHANGED closeCalled
    /\ UNCHANGED nonWsVars

\* the 10 s timer of connectPublic: without a connection the current socket is terminated;
\* with publicWs null the call throws and the callback ends
ConnectTimeout ==
    /\ \E id \in DOMAIN sockets :
        /\ sockets[id].timeout
        /\ WsBecomes(LET w == [Ws EXCEPT !.sockets[id].timeout = FALSE]
                     IN  IF ~isConnected /\ publicWs # Null
                         THEN [w EXCEPT !.sockets = Closing(@, publicWs)]
                         ELSE w)
    /\ UNCHANGED closeCalled
    /\ UNCHANGED nonWsVars

\* an armed health-check timer fires: checkConnectionHealth; stale says that no data arrived
\* for longer than dataTimeout
CheckConnectionHealth ==
    /\ \E i \in DOMAIN intervals, stale \in BOOLEAN :
        /\ intervals[i].armed
        /\ WsBecomes(LET first == IF stale THEN forceReconnect(Ws) ELSE Ws
                     IN  IF first.publicWs # Null /\ first.sockets[first.publicWs].state # "open"
                         THEN forceReconnect(first)
                         ELSE first)
    /\ UNCHANGED closeCalled
    /\ UNCHANGED nonWsVars

\* the timer of reconnectPublic fires: connectPublic
ReconnectTimer ==
    /\ reconnectTimers.connect > 0
    /\ Len(sockets) < MaxSockets
    /\ WsBecomes(connectPublic([Ws EXCEPT !.reconnectTimers.connect = @ - 1]))
    /\ UNCHANGED closeCalled
    /\ UNCHANGED nonWsVars

\* close(), called by the bot when it stops or replaces the instance
Close ==
    /\ ~closeCalled
    /\ closeCalled' = TRUE
    /\ WsBecomes(LET w == stopConnectionMonitoring([Ws EXCEPT !.isConnected = FALSE])
                 IN  IF w.publicWs # Null
                     THEN [w EXCEPT !.sockets = Closing(@, w.publicWs), !.publicWs = Null]
                     ELSE w)
    /\ UNCHANGED nonWsVars

WsNext ==
    \/ ConnectPublic
    \/ SocketOpen
    \/ SocketClose
    \/ ConnectTimeout
    \/ CheckConnectionHealth
    \/ ReconnectTimer
    \/ Close

\* new TradingBot: performanceStats and the metrics of its PerformanceMonitor
StatInit ==
    /\ totalTrades = 0
    /\ tradesExecuted = 0

\* new BybitWebSocket(config): the constructor assigns connectionCheckInterval twice,
\* first null as the timer handle and then 60000 as the period of the check
WsInit ==
    /\ publicWs = Null
    /\ sockets = << >>
    /\ isConnected = FALSE
    /\ reconnectAttempts = 0
    /\ connectionCheckInterval = [kind |-> "number", value |-> 60000]
    /\ intervals = << >>
    /\ reconnectTimers = [connect |-> 0, retry |-> 0]
    /\ closeCalled = FALSE

InitRisk == RiskInit /\ SizeIdle /\ CycleInit /\ HistoryInit /\ SignalIdle /\ ReversalIdle /\ StatInit /\ WsInit

SpecRisk == InitRisk /\ [][RiskNext]_vars

InitSize == SizeInit /\ RiskInit /\ CycleInit /\ HistoryInit /\ SignalIdle /\ ReversalIdle /\ StatInit /\ WsInit

SpecSize == InitSize /\ [][SizeNext]_vars

InitCycle == CycleInit /\ RiskInit /\ SizeIdle /\ HistoryInit /\ SignalIdle /\ ReversalIdle /\ StatInit /\ WsInit

SpecCycle == InitCycle /\ [][CycleNext]_vars

InitHistory == HistoryInit /\ RiskInit /\ SizeIdle /\ CycleInit /\ SignalIdle /\ ReversalIdle /\ StatInit /\ WsInit

SpecHistory == InitHistory /\ [][HistoryNext]_vars

SpecFeed == InitHistory /\ [][FeedNext]_vars

SpecGate == InitRisk /\ [][GateNext]_vars

InitSignal == SignalInit /\ RiskInit /\ SizeIdle /\ CycleInit /\ ReversalIdle /\ StatInit /\ WsInit

SpecSignal == InitSignal /\ [][SignalNext]_vars

SpecRank == InitSignal /\ [][RankNext]_vars

SpecHold == InitRisk /\ [][HoldNext]_vars

SpecStop == InitRisk /\ [][StopNext]_vars

InitTrade == TradeInit /\ SizeIdle /\ CycleInit /\ HistoryInit /\ SignalIdle /\ ReversalIdle /\ StatInit /\ WsInit

SpecTrade == InitTrade /\ [][TradeNext]_vars

InitOrder == OrderInit /\ SizeIdle /\ HistoryInit /\ SignalIdle /\ ReversalIdle /\ StatInit /\ WsInit

SpecOrder == InitOrder /\ [][OrderNext]_vars

SpecWs == InitRisk /\ [][WsNext]_vars

InitReversal == ReversalInit /\ RiskInit /\ SizeIdle /\ CycleInit /\ HistoryInit /\ SignalIdle /\ StatInit /\ WsInit

SpecReversal == InitReversal /\ [][ReversalNext]_vars

-----------------------------------------------------------------------------
(* Properties of the RiskManager *)

\* C1: after any sequence of addPosition, closePosition, setStopLoss and
\* updateTrailingStop calls the open-position set holds at most one position
\* per symbol, and every position in it has status 'open'.
C1_OneOpenPositionPerSymbol ==
    /\ \A i, j \in DOMAIN positions : positions[i].key = positions[j].key => i = j
    /\ \A i \in DOMAIN positions :
        /\ positions[i].value.status = "open"
        /\ positions[i].value.symbol = positions[i].key

\* a position was added for a symbol that already had one, after a close, and both symbols are open
C1_Witness ==
    /\ ret.op = "addPosition"
    /\ ret.existed
    /\ Len(trades) > 0
    /\ Len(positions) = 2

\* C2: addPosition for a symbol that already has an open position is
\* rejected: it returns a failure indicator and leaves the existing record,
\* the open set and the trade history unchanged.
C2_AddPositionRejectsDuplicate ==
    [][(ret'.op = "addPosition" /\ calls' # calls /\ MapHas(positions, ret'.symbol))
        => (ret'.rejected /\ positions' = positions /\ trades' = trades)]_vars

\* C5: across updateTrailingStop, checkStopLossAndTakeProfit and
\* checkAllStopLossesAndTakeProfits calls with arbitrary prices, the stopLoss
\* of a position with a trailing stop never decreases for a long (Buy)
\* position and never increases for a short (Sell) position.
C5_TrailingStopMonotonic ==
    [][(ret'.op \in {"updateTrailingStop", "checkStopLossAndTakeProfit",
                     "checkAllStopLossesAndTakeProfits"} /\ calls' # calls)
        => \A i \in DOMAIN positions :
            positions[i].value.isTrailingStop =>
                /\ i \in DOMAIN positions'
                /\ positions'[i].key = positions[i].key
                /\ positions[i].value.side = "Buy"
                    => positions'[i].value.stopLoss >= positions[i].value.stopLoss
                /\ positions[i].value.side = "Sell"
                    => positions'[i].value.stopLoss <= positions[i].value.stopLoss]_vars

\* updateTrailingStop has just moved the stop of a trailing position
C5_Witness ==
    /\ ret.op = "updateTrailingStop"
    /\ ret.value = TRUE
    /\ MapGet(positions, ret.symbol).isTrailingStop

\* C6: setStopLoss and modifyStopLoss on an open position return false and
\* leave the position unchanged when the proposed stop is not strictly below
\* entry for a long or not strictly above entry for a short; a stop on the
\* loss side of entry is accepted and stored.
C6_StopLossValidated ==
    [][(ret'.op \in {"setStopLoss", "modifyStopLoss"} /\ calls' # calls /\ MapHas(positions, ret'.symbol))
        => LET p == MapGet(positions, ret'.symbol)
               onLossSide == \/ p.side = "Buy" /\ ret'.price < p.entryPrice
                             \/ p.side = "Sell" /\ ret'.price > p.entryPrice
           IN  IF onLossSide
               THEN /\ ret'.value = TRUE
                    /\ MapGet(positions', ret'.symbol).stopLoss = ret'.price
                    /\ MapGet(positions', ret'.symbol).isTrailingStop = ret'.isTrailing
               ELSE /\ ret'.value = FALSE
                    /\ positions' = positions]_vars

\* a stop equal to the entry price was proposed for an open position and refused
C6_Witness ==
    /\ ret.op \in {"setStopLoss", "modifyStopLoss"}
    /\ ret.found
    /\ ret.value = FALSE
    /\ ret.price = MapGet(positions, ret.symbol).entryPrice

-----------------------------------------------------------------------------
(* Properties of the position sizing *)

-----------------------------------------------------------------------------
(* Properties of the trading loop *)

\* C3: at most one analysis cycle (analyzeAndTrade) is in progress at any
\* time; a timer tick that arrives while the previous cycle is suspended on
\* an external call starts no new cycle.
C3_AtMostOneCycleInProgress == Cardinality(ActiveCycles) <= 1

-----------------------------------------------------------------------------
(* Properties of the price history *)

\* C9: after any sequence of addCandle calls for a key, the stored history
\* has length <= 500 and consists of exactly the most recent min(n, 500)
\* candles added, in insertion order (the oldest candle is evicted first).
C9_HistoryIsMostRecentCandles ==
    \A k \in HistoryKeys :
        LET n == addedCount[k]
            kept == IF n < 500 THEN n ELSE 500
            history == getPriceHistory(k)
        IN  /\ Len(history) <= 500
            /\ Len(history) = kept
            /\ \A i \in 1..kept :
                /\ history[i].timestamp = n - kept + i
                /\ history[i] = StoredCandle(KlineAt(n - kept + i))

\* more than 500 candles were added for a key, so the oldest ones were evicted
C9_Witness ==
    /\ addedCount["BTCUSDT"] > 501
    /\ Len(getPriceHistory("BTCUSDT")) = 500
    /\ addedCount["BTCUSDT_DAILY"] = 1

-----------------------------------------------------------------------------
(* Properties of the signal fusion *)

\* C7: every signal returned by analyzeSignal has confidence within
\* [0, 100], whichever indicators are available, whatever the trend
\* directions and bonuses, with or without the 0.7 contradiction penalty.
C7_ConfidenceWithinRange ==
    signalRet.done => (0 <= signalRet.confidence /\ signalRet.confidence <= 100000)

\* the fused confidence reached the cap of 100 on a full analysis with a directional long-term trend
C7_Witness ==
    /\ signalRet.done
    /\ ~signalRet.early
    /\ signalRet.longTermTrend.direction # "neutral"
    /\ signalRet.confidence = 100000

\* C8: when the long-term trend is non-neutral with confidence > 50 and its
\* direction contradicts the base fused signal (bullish against sell,
\* bearish against buy) analyzeSignal returns 'neutral'; when it agrees
\* with the base signal that buy/sell signal is returned unchanged.
C8_LongTermTrendVeto ==
    (signalRet.done /\ ~signalRet.early
        /\ signalRet.longTermTrend.direction # "neutral"
        /\ signalRet.longTermTrend.confidence > 50000)
    => LET direction == signalRet.longTermTrend.direction
           base == signalRet.baseSignal
       IN  /\ (direction = "bullish" /\ base = "sell") => signalRet.signal = "neutral"
           /\ (direction = "bearish" /\ base = "buy") => signalRet.signal = "neutral"
           /\ (direction = "bullish" /\ base = "buy") => signalRet.signal = "buy"
           /\ (direction = "bearish" /\ base = "sell") => signalRet.signal = "sell"

\* a base sell signal was vetoed by a confident bullish long-term trend
C8_Witness ==
    /\ signalRet.done
    /\ ~signalRet.early
    /\ signalRet.longTermTrend.direction = "bullish"
    /\ signalRet.longTermTrend.confidence > 50000
    /\ signalRet.baseSignal = "sell"
    /\ signalRet.signal = "neutral"

\* C10: calculateRSI returns null below period+1 = 15 candles, calculateMACD
\* returns null below slowPeriod+signalPeriod = 35 candles,
\* calculateBollingerBands returns null below period = 20 candles, and
\* analyzeSignal then returns neutral with strength 0 and confidence 0.
C10_ShortHistoryGivesNeutral ==
    signalRet.done =>
        LET n == Len(getPriceHistory("BTCUSDT"))
        IN  /\ n < 14 + 1 => signalRet.rsi = Null
            /\ n < 26 + 9 => signalRet.macdIsNull
            /\ n < 20 => signalRet.bbIsNull
            /\ (signalRet.rsi = Null \/ signalRet.macdIsNull \/ signalRet.bbIsNull)
                => (signalRet.signal = "neutral" /\ signalRet.strength = 0 /\ signalRet.confidence = 0)

\* with 34 candles the RSI and the bands are available, the MACD is not, and the signal is neutral
C10_Witness ==
    /\ signalRet.done
    /\ Len(getPriceHistory("BTCUSDT")) = 34
    /\ signalRet.rsi # Null
    /\ ~signalRet.bbIsNull
    /\ signalRet.macdIsNull
    /\ signalRet.signal = "neutral"
    /\ signalRet.confidence = 0

-----------------------------------------------------------------------------
(* Properties of the portfolio gates *)

\* every loss recorded in the trade history was closed on the current calendar day
LossesAllToday ==
    \A i \in DOMAIN trades : trades[i].pnl <= 0 => Day(trades[i].exitTime) = Day(now)

\* C11: checkDailyLossLimit returns true exactly when the accumulated
\* dailyLoss is below the configured limit; every closePosition with
\* pnl <= 0 adds |pnl| to dailyLoss; once the accumulated loss has reached
\* the limit every later checkDailyLossLimit call returns false until the
\* calendar day changes.
C11_DailyLossLimitHolds ==
    [][/\ (ret'.op = "checkDailyLossLimit" /\ calls' # calls)
            => /\ ret'.value = (dailyLoss' < ConfigDailyLossLimit)
               /\ (dailyLoss >= ConfigDailyLossLimit /\ LossesAllToday) => ret'.value = FALSE
       /\ (ret'.op = "closePosition" /\ calls' # calls /\ ret'.found /\ ret'.value.pnl <= 0)
            => dailyLoss' = dailyLoss + Abs(ret'.value.pnl)]_vars

-----------------------------------------------------------------------------
(* C12: with profit protection enabled, detectTrendReversal applies its       *)
(* policy in order and the first match wins: PnL% above minProfitPercent with *)
(* strength above trendReversalThreshold closes for profit protection, even   *)
(* when the strength is also above the critical threshold; otherwise strength *)
(* above criticalReversalThreshold closes for a critical reversal whatever    *)
(* the PnL; otherwise PnL% below lossMinimizationPercent with strength above  *)
(* lossMinimizationThreshold closes for loss minimization; otherwise          *)
(* shouldClose is false.  Strength 0.55 with PnL +3% against 2% and 0.4       *)
(* closes for profit protection.                                              *)
C12_PolicyFirstMatchWins ==
    (reversalRet.done /\ profitProtection # NullObject /\ profitProtection.enabled) =>
        /\ reversalRet.strength = ReversalStrength(reversalRet.indicators)
        /\ IF /\ reversalArgs.pnlPercent > profitProtection.minProfitPercent
              /\ reversalRet.strength > profitProtection.trendReversalThreshold
           THEN reversalRet.shouldClose /\ reversalRet.reason = "profit_protection"
           ELSE IF reversalRet.strength > profitProtection.criticalReversalThreshold
           THEN reversalRet.shouldClose /\ reversalRet.reason = "critical_reversal"
           ELSE IF /\ reversalArgs.pnlPercent < profitProtection.lossMinimizationPercent
                   /\ reversalRet.strength > profitProtection.lossMinimizationThreshold
           THEN reversalRet.shouldClose /\ reversalRet.reason = "loss_minimization"
           ELSE ~reversalRet.shouldClose
        /\ (reversalRet.strength = 55000 /\ reversalArgs.pnlPercent = 300)
               => (reversalRet.shouldClose /\ reversalRet.reason = "profit_protection")

\* a profitable position whose reversal strength is above the critical threshold is closed
\* for profit protection
C12_Witness ==
    /\ reversalRet.done
    /\ profitProtection = ProtectionEnabled
    /\ reversalArgs.pnlPercent > profitProtection.minProfitPercent
    /\ reversalRet.strength > profitProtection.criticalReversalThreshold
    /\ reversalRet.shouldClose
    /\ reversalRet.reason = "profit_protection"

-----------------------------------------------------------------------------
(* C13: when profit protection is disabled or absent in the configuration,    *)
(* detectTrendReversal returns shouldClose = false for every position,        *)
(* signal, trend and PnL, so the per-cycle check (which closes only on        *)
(* shouldClose) never closes a position.                                      *)
C13_DisabledNeverCloses ==
    (reversalRet.done /\ (profitProtection = NullObject \/ ~profitProtection.enabled))
        => ~reversalRet.shouldClose

\* protection is switched off and the inputs would close a protected position
C13_Witness ==
    /\ reversalRet.done
    /\ profitProtection = ProtectionDisabled
    /\ reversalArgs.pnlPercent > ProtectionEnabled.minProfitPercent
    /\ reversalRet.strength > ProtectionEnabled.criticalReversalThreshold
    /\ ~reversalRet.shouldClose

-----------------------------------------------------------------------------
(* C14: whenever a positive current price is supplied, the quantity returned  *)
(* by calculatePositionSize is never below the minimum order quantity of the  *)
(* symbol: 0.001 for BTCUSDT, 5 for XRPUSDT, 1 for TRXUSDT and 0.01 for a     *)
(* symbol that is not in the table.                                           *)
C14_QuantityAtLeastMinQty ==
    (sizeRet.done /\ sizeArgs.currentPrice # Null /\ sizeArgs.currentPrice > 0) =>
        /\ sizeRet.quantity >= getMinQty(sizeArgs.symbol)
        /\ sizeRet.quantity >= (CASE sizeArgs.symbol = "BTCUSDT" -> Scale \div 1000
                                  [] sizeArgs.symbol = "XRPUSDT" -> 5 * Scale
                                  [] sizeArgs.symbol = "TRXUSDT" -> Scale
                                  [] OTHER -> Scale \div 100)

\* a raw quantity below the minimum of a symbol outside the table is raised to 0.01
C14_Witness ==
    /\ sizeRet.done
    /\ sizeArgs.symbol = "DOGEUSDT"
    /\ sizeArgs.currentPrice # Null /\ sizeArgs.currentPrice > 0
    /\ sizeRet.sizeUSD \div sizeArgs.currentPrice < Scale \div 100
    /\ sizeRet.quantity = Scale \div 100

-----------------------------------------------------------------------------
(* C15: when a price is supplied, the quantity returned by                    *)
(* calculatePositionSize is either the minimum order quantity or a multiple   *)
(* of 10^-d, d being the decimals configured for the symbol in the table (an  *)
(* integer for XRPUSDT and TRXUSDT, configured with 0) and 2 only for a       *)
(* symbol missing from the table.                                             *)
C15_QuantityFlooredToConfiguredDecimals ==
    (sizeRet.done /\ sizeArgs.currentPrice # Null /\ sizeArgs.currentPrice > 0) =>
        LET d == IF decimalsMap(sizeArgs.symbol) = Null THEN 2 ELSE decimalsMap(sizeArgs.symbol)
        IN  \/ sizeRet.quantity = getMinQty(sizeArgs.symbol)
            \/ sizeRet.quantity % Pow10(4 - d) = 0

-----------------------------------------------------------------------------
(* C16: calculatePositionSize computes adjustedUSD = balance * positionSize   *)
(* fraction * min(signalStrength * 1.5, 1.5) * (confidence / 100) and returns *)
(* sizeUSD = adjustedUSD whenever adjustedUSD lies within [25, 0.7 * balance];*)
(* balance 10000, fraction 0.05, strength 0.9 and confidence 80 give 540.     *)
C16_SizeIsAdjustedWithinBounds ==
    sizeRet.done =>
        LET adjustedUSD == (sizeArgs.balance * ConfigPositionSize
                               * Min(sizeArgs.signalStrength * 15, 150) * sizeArgs.confidence) \div 100
        IN  /\ (adjustedUSD >= 25 * Scale /\ adjustedUSD <= sizeArgs.balance * 7000)
                    => sizeRet.sizeUSD = adjustedUSD
            /\ (sizeArgs.balance = 10000 /\ sizeArgs.signalStrength = 9 /\ sizeArgs.confidence = 80)
                    => sizeRet.sizeUSD = 540 * Scale

\* the example of the sizing rule: 10000 * 0.05 * 1.35 * 0.8 = 540, inside [25, 7000]
C16_Witness ==
    /\ sizeRet.done
    /\ sizeArgs.balance = 10000
    /\ sizeArgs.signalStrength = 9
    /\ sizeArgs.confidence = 80
    /\ sizeRet.sizeUSD = 540 * Scale

-----------------------------------------------------------------------------
(* C17: a position created by addPosition without custom levels has          *)
(* stopLoss = entryPrice * (1 - risk) for a long and entryPrice * (1 + risk)  *)
(* for a short, and takeProfit = entryPrice + |entryPrice - stopLoss| * ratio *)
(* for a long and entryPrice - |entryPrice - stopLoss| * ratio for a short,   *)
(* risk being the configured stop-loss fraction (2%) and ratio 2: a long at   *)
(* 100 gets 98 and 104.                                                       *)
C17_DefaultStopLossAndTakeProfit ==
    ret.op = "addPosition" =>
        LET p == ret.value
        IN  /\ p.side = "Buy" =>
                /\ p.stopLoss * 100 = p.entryPrice * (100 - 2)
                /\ p.takeProfit = p.entryPrice + Abs(p.entryPrice - p.stopLoss) * 2
            /\ p.side = "Sell" =>
                /\ p.stopLoss * 100 = p.entryPrice * (100 + 2)
                /\ p.takeProfit = p.entryPrice - Abs(p.entryPrice - p.stopLoss) * 2
            /\ (p.side = "Buy" /\ p.entryPrice = 100) => (p.stopLoss = 98 /\ p.takeProfit = 104)

\* a short opened at 100 is stored with its stop at 102 and its target at 96
C17_Witness ==
    /\ ret.op = "addPosition"
    /\ ret.value.side = "Sell"
    /\ ret.value.entryPrice = 100
    /\ ret.value.stopLoss = 102
    /\ ret.value.takeProfit = 96
    /\ MapHas(positions, ret.symbol)
    /\ MapGet(positions, ret.symbol) = ret.value

-----------------------------------------------------------------------------
(* C18: closePosition(symbol, exitPrice) on an open position computes         *)
(* pnl = (exit - entry) * size for a long and (entry - exit) * size for a     *)
(* short, adds pnl to dailyProfit when pnl > 0 and |pnl| to dailyLoss         *)
(* otherwise, appends the record with status 'closed' to the trade history    *)
(* and removes the symbol from the open positions; for a symbol with no open  *)
(* position it returns null and changes no state.                             *)
C18_ClosePositionAccounting ==
    [][(ret'.op = "closePosition" /\ calls' # calls) =>
        IF MapHas(positions, ret'.symbol)
        THEN LET position == MapGet(positions, ret'.symbol)
                 closed == ret'.value
                 pnl == IF position.side = "Buy"
                        THEN (closed.exitPrice - position.entryPrice) * position.size
                        ELSE (position.entryPrice - closed.exitPrice) * position.size
             IN  /\ ret'.found
                 /\ closed.pnl = pnl
                 /\ closed.status = "closed"
                 /\ closed.symbol = ret'.symbol
                 /\ pnl > 0 => (dailyProfit' = dailyProfit + pnl /\ dailyLoss' = dailyLoss)
                 /\ pnl <= 0 => (dailyLoss' = dailyLoss + Abs(pnl) /\ dailyProfit' = dailyProfit)
                 /\ trades' = Append(trades, closed)
                 /\ ~MapHas(positions', ret'.symbol)
                 /\ positions' = SelectSeq(positions, LAMBDA e : e.key # ret'.symbol)
        ELSE /\ ~ret'.found
             /\ ret'.value = Null
             /\ UNCHANGED <<positions, trades, dailyLoss, dailyProfit, totalDrawdown, peakBalance,
                            lastResetDate>>]_vars

\* a short closed above its entry: the loss is in dailyLoss, the record in trades, the
\* symbol no longer open
C18_Witness ==
    /\ ret.op = "closePosition"
    /\ ret.found
    /\ ret.value.side = "Sell"
    /\ ret.value.pnl = 0 - 12
    /\ dailyLoss = 12
    /\ Len(trades) = 1
    /\ trades[1] = ret.value
    /\ trades[1].status = "closed"
    /\ ~MapHas(positions, ret.symbol)

-----------------------------------------------------------------------------
(* C19: canTrade returns canTrade = true if and only if all six checks hold:  *)
(* daily loss below the limit, drawdown below the limit, the current UTC hour *)
(* within the configured window, the number of open positions below           *)
(* maxPositions, signalStrength >= minSignalStrength and                      *)
(* confidence >= minConfidence; its positionSize is non-null exactly when     *)
(* canTrade is true.                                                          *)
C19_CanTradeIffAllChecks ==
    [][(ret'.op = "canTrade" /\ calls' # calls) =>
        /\ ret'.value.canTrade =
               (/\ dailyLoss' < ConfigDailyLossLimit
                /\ (totalDrawdown' # NaN /\ totalDrawdown' < ConfigMaxDrawdown)
                /\ (Hour(now) >= ConfigTradingHours.start /\ Hour(now) <= ConfigTradingHours.end)
                /\ Len(positions) < ConfigMaxPositions
                /\ ret'.signalStrength >= ConfigMinSignalStrength
                /\ ret'.confidence >= ConfigMinConfidence)
        /\ (ret'.value.positionSize # NullObject) = ret'.value.canTrade]_vars

\* a call that passes every check and returns a position size
C19_Witness ==
    /\ ret.op = "canTrade"
    /\ ret.value.canTrade
    /\ ret.value.positionSize # NullObject
    /\ ret.value.positionSize.sizeUSD >= 25 * Scale
    /\ peakBalance = 100
    /\ totalDrawdown = 0

-----------------------------------------------------------------------------
(* C20: when the stop-loss and the take-profit conditions of a position both  *)
(* hold for the same current price, checkStopLossAndTakeProfit and            *)
(* checkAllStopLossesAndTakeProfits return exactly one close instruction for  *)
(* it, with reason 'stop_loss'; when only the take-profit condition holds the *)
(* reason is 'take_profit'; when neither holds no close instruction is        *)
(* returned.  The conditions are those of the position as the call found it:  *)
(* price at or beyond the stop against the position, price at or beyond the   *)
(* target in its favour.                                                      *)
C20_ExpectedReason(position, price) ==
    LET stopLossHolds == IF position.side = "Buy" THEN price <= position.stopLoss
                         ELSE price >= position.stopLoss
        takeProfitHolds == IF position.side = "Buy" THEN price >= position.takeProfit
                           ELSE price <= position.takeProfit
    IN  IF stopLossHolds THEN "stop_loss" ELSE IF takeProfitHolds THEN "take_profit" ELSE "null"

C20_InstructionsFor(symbol, toClose) == {i \in DOMAIN toClose : toClose[i].symbol = symbol}

C20_StopLossBeforeTakeProfit ==
    [][/\ (ret'.op = "checkStopLossAndTakeProfit" /\ calls' # calls /\ MapHas(positions, ret'.symbol))
            => ret'.value = C20_ExpectedReason(MapGet(positions, ret'.symbol), ret'.price)
       /\ (ret'.op = "checkAllStopLossesAndTakeProfits" /\ calls' # calls)
            => \A i \in DOMAIN positions :
                 LET symbol == positions[i].key
                     price == ret'.prices[symbol]
                     instructions == C20_InstructionsFor(symbol, ret'.value)
                 IN  price # Null =>
                        IF C20_ExpectedReason(positions[i].value, price) = "null"
                        THEN instructions = {}
                        ELSE /\ Cardinality(instructions) = 1
                             /\ \A j \in instructions :
                                   /\ ret'.value[j].action = "close"
                                   /\ ret'.value[j].reason = C20_ExpectedReason(positions[i].value, price)
                                   /\ ret'.value[j].price = price]_vars

\* a long whose trailing stop has risen to its target of 104: at 104 both conditions hold
\* and the instruction is the stop-loss
C20_Witness ==
    /\ ret.op = "checkStopLossAndTakeProfit"
    /\ MapHas(positions, ret.symbol)
    /\ MapGet(positions, ret.symbol).side = "Buy"
    /\ ret.price <= MapGet(positions, ret.symbol).stopLoss
    /\ ret.price >= MapGet(positions, ret.symbol).takeProfit
    /\ ret.value = "stop_loss"

-----------------------------------------------------------------------------
(* C28: over any sequence of checkMaxDrawdown calls peakBalance never         *)
(* decreases and is the highest balance observed so far; after each call      *)
(* totalDrawdown is (peakBalance - currentBalance) / peakBalance, 0 on a new  *)
(* peak, and lies in [0, 1] (0 to 1000 thousandths); the call returns true    *)
(* exactly when that drawdown is below the configured maxDrawdown.            *)
C28_DrawdownTracksPeak ==
    [][(ret'.op = "checkMaxDrawdown" /\ calls' # calls) =>
        /\ peakBalance' >= peakBalance
        /\ peakBalance' = Max(peakBalance, ret'.balance)
        /\ ret'.balance > peakBalance => totalDrawdown' = 0
        /\ totalDrawdown' >= 0 /\ totalDrawdown' <= 1000
        /\ totalDrawdown' * peakBalance' = (peakBalance' - ret'.balance) * 1000
        /\ ret'.value = (totalDrawdown' < ConfigMaxDrawdown)]_vars

-----------------------------------------------------------------------------
(* C27: dailyLoss and dailyProfit are reset whenever the calendar day         *)
(* changes, so the dailyLoss a checkDailyLossLimit call compares with the     *)
(* limit is the sum of the losses of the positions closed during the current  *)
(* calendar day only: a loss booked by closePosition after the day changed is *)
(* counted by the next check, a loss of a previous day is not.                *)
RECURSIVE C27_LossesOn(_, _)

C27_LossesOn(day, closed) ==
    IF closed = << >> THEN 0
    ELSE (IF Head(closed).pnl <= 0 /\ Day(Head(closed).exitTime) = day
          THEN Abs(Head(closed).pnl) ELSE 0) + C27_LossesOn(day, Tail(closed))

C27_DailyLossIsTodaysLosses ==
    [][(ret'.op = "checkDailyLossLimit" /\ calls' # calls) =>
        /\ dailyLoss' = C27_LossesOn(Day(now), trades)
        /\ ret'.value = (C27_LossesOn(Day(now), trades) < ConfigDailyLossLimit)]_vars

-----------------------------------------------------------------------------
-----------------------------------------------------------------------------
(* C29: an open position older than the 24-hour maximum hold duration is      *)
(* flagged for a forced close whatever its PnL: checkTimeBasedCloses returns  *)
(* it with reason 'time_limit', and analyzeExistingPositions returns action   *)
(* 'close' for it whenever a current price is available.                      *)
C29_OverduePositionsAreFlagged ==
    [][/\ (ret'.op = "checkTimeBasedCloses" /\ calls' # calls) =>
            \A i \in DOMAIN positions :
                (now - positions[i].value.timestamp > 2) =>
                    \E j \in DOMAIN ret'.value :
                        ret'.value[j] = [symbol |-> positions[i].key, reason |-> "time_limit"]
       /\ (/\ ret'.op = "analyzeExistingPositions" /\ calls' # calls
           /\ MapHas(positions, ret'.symbol)
           /\ ret'.price # Null
           /\ now - MapGet(positions, ret'.symbol).timestamp > 2)
            => ret'.value.action = "close"]_vars

\* a position opened a day and a half ago, neither at its stop nor at its target, is to be
\* closed for its age
C29_Witness ==
    /\ ret.op = "analyzeExistingPositions"
    /\ MapHas(positions, ret.symbol)
    /\ now - MapGet(positions, ret.symbol).timestamp > 2
    /\ ret.value.action = "close"
    /\ ret.value.reason = "time_limit"

-----------------------------------------------------------------------------
(* C26: for each history key the stored candles are in chronological order,   *)
(* timestamps non-decreasing from oldest to newest, after any interleaving of *)
(* the per-cycle historical fetch and the live kline messages.                *)
C26_HistoryIsChronological ==
    \A k \in DOMAIN priceHistory :
        \A i \in 1..(Len(priceHistory[k]) - 1) :
            priceHistory[k][i].timestamp <= priceHistory[k][i + 1].timestamp

(* C22: when fetching the historical candles of a symbol fails, the failure  *)
(* is caught and no candle is added to the price history; stated for the      *)
(* failure of the first request, before which the call has added nothing.     *)
C22_FailedFetchAddsNoCandles ==
    [][(/\ ret'.op = "getHistoricalData" /\ calls' # calls
        /\ ret'.outcome = "shortFailed")
        => priceHistory' = priceHistory]_vars

-----------------------------------------------------------------------------
(* C24: a running cycle observes the stop flag between its steps: once        *)
(* isRunning is false, no cycle in flight begins another symbol and none      *)
(* goes on to place an order.                                                 *)
C24_StoppedCycleDoesNotGoOn ==
    [][~isRunning =>
        \A c \in DOMAIN cycles :
            cycles'[c] # cycles[c] => cycles'[c].pc \notin {"shortKlines", "dailyKlines", "order"}]_vars

(* C25: within one cycle the trend-reversal check of the open positions,      *)
(* protective closes included, is complete before the evaluation of any       *)
(* symbol begins: a cycle starts in the check or, the check having awaited    *)
(* nothing, at the first symbol; it leaves the check only for the first       *)
(* symbol; and it never returns to the check.                                 *)
C25_ReversalCheckBeforeSymbols ==
    [][/\ \A c \in (DOMAIN cycles') \ (DOMAIN cycles) :
            \/ cycles'[c].pc = "closeOrder"
            \/ cycles'[c] = [pc |-> "shortKlines", idx |-> 1]
       /\ \A c \in DOMAIN cycles :
            /\ cycles[c].pc # "closeOrder" => cycles'[c].pc # "closeOrder"
            /\ (cycles[c].pc = "closeOrder" /\ cycles'[c].pc # "closeOrder")
                => cycles'[c] = [pc |-> "shortKlines", idx |-> 1]]_vars

\* a cycle whose check closed two positions has gone through both symbols while a later
\* cycle is still in its own check
C25_Witness ==
    /\ Len(cycles) = 2
    /\ cycles[1].pc = "balance"
    /\ cycles[2].pc = "closeOrder"
    /\ cycles[2].idx = 1

-----------------------------------------------------------------------------
-----------------------------------------------------------------------------
(* C21: in a cycle every open position with a current price is checked        *)
(* against its own stored stop-loss: when the price is at or beyond the       *)
(* position's current stopLoss, a stop changed by setStopLoss or moved by the *)
(* trailing stop included, the position analysis of the cycle decides to      *)
(* close the position.                                                        *)
C21_StoredStopLossClosesPosition ==
    [][(/\ ret'.op = "analyzeExistingPositions" /\ calls' # calls
        /\ MapHas(positions, ret'.symbol)
        /\ ret'.price # Null
        /\ LET position == MapGet(positions, ret'.symbol)
           IN  /\ position.stopLoss # Null
               /\ IF position.side = "Buy"
                  THEN ret'.price <= position.stopLoss
                  ELSE ret'.price >= position.stopLoss)
        => ret'.value.action = "close"]_vars

-----------------------------------------------------------------------------
(* C39: the recommendation of analyzeLongTermTrend is consistent with its     *)
(* direction: a buy recommendation comes only with direction 'bullish', a     *)
(* sell recommendation only with direction 'bearish', and a neutral direction *)
(* yields only insufficient_data, weak_trend or mixed_signals.                *)
C39_RecommendationMatchesDirection ==
    signalRet.done =>
        LET trend == signalRet.longTermTrend
        IN  /\ trend.recommendation \in {"strong_buy", "moderate_buy", "weak_buy"}
                => trend.direction = "bullish"
            /\ trend.recommendation \in {"strong_sell", "moderate_sell", "weak_sell"}
                => trend.direction = "bearish"
            /\ trend.direction = "neutral"
                => trend.recommendation \in {"insufficient_data", "weak_trend", "mixed_signals"}

-----------------------------------------------------------------------------
(* C31: getVolatilityRank returns 'medium' when fewer than 100 candles are    *)
(* stored; otherwise 'low' iff the current volatility lies in the bottom 20th *)
(* percentile of the window samples, 'high' iff it lies in the top 20th       *)
(* percentile, a value above every sample included, and 'medium' otherwise.   *)
(* The percentile of a value is the share of the samples below it.            *)
C31_VolatilityRankByPercentile ==
    ret.op = "getVolatilityRank" =>
        LET samples == ret.volatilities
            below == Cardinality({i \in DOMAIN samples : samples[i] < ret.currentVolatility})
        IN  IF Len(getPriceHistory("BTCUSDT")) < 100
            THEN ret.value = "medium"
            ELSE /\ (ret.value = "low") = (below * 10 < 2 * Len(samples))
                 /\ (ret.value = "high") = (below * 10 > 8 * Len(samples))
                 /\ ret.value \in {"low", "medium", "high"}

\* C36: a position is added, a trade recorded or the trade counter raised only by the step that
\* receives retCode 0 for the entry order of that symbol; an entry order that is refused or
\* throws leaves the positions, the recorded trades and the counter as they were
C36_PositionOnlyAfterAcceptedEntry ==
    [][/\ (\/ (positions' # positions /\ Len(positions') >= Len(positions))
           \/ totalTrades' # totalTrades
           \/ tradesExecuted' # tradesExecuted)
          => /\ ret'.op = "api.placeOrderWithTPSL"
             /\ ret'.result = "ok"
             /\ \E c \in DOMAIN cycles :
                 /\ cycles[c].pc = "entryOrder"
                 /\ cycles'[c].pc # "entryOrder"
                 /\ cycles[c].order.symbol = ret'.symbol
                 /\ MapHas(positions', ret'.symbol)
                 /\ MapGet(positions', ret'.symbol).entryPrice = cycles[c].order.price
             /\ totalTrades' = totalTrades + 1
             /\ tradesExecuted' = tradesExecuted + 1
       /\ (/\ \E c \in DOMAIN cycles : cycles[c].pc = "entryOrder" /\ cycles'[c].pc # "entryOrder"
           /\ ret'.op = "api.placeOrderWithTPSL"
           /\ ret'.result # "ok")
          => /\ positions' = positions
             /\ totalTrades' = totalTrades
             /\ tradesExecuted' = tradesExecuted]_vars

\* an accepted entry has added a position and been counted, and a later entry order was refused
C36_Witness ==
    /\ ret.op = "api.placeOrderWithTPSL"
    /\ ret.result = "rejected"
    /\ totalTrades = 1
    /\ tradesExecuted = 1
    /\ Len(positions) = 1

\* C35: a position leaves the open set, and its PnL is booked in trades, only by a step in
\* which the exchange acknowledges the close order of that symbol with retCode 0; while the
\* close order is awaited, and after it is refused or throws, the position is still open
C35_PositionRemovedOnlyAfterAcknowledgedClose ==
    [][\A symbol \in Symbols :
        (MapHas(positions, symbol) /\ ~MapHas(positions', symbol)) \/ Len(trades') > Len(trades)
        => /\ ret'.op = "api.closePosition"
           /\ ret'.result = "ok"]_vars

\* C32: the number of open positions never exceeds config.trading.maxPositions
C32_OpenPositionsWithinMaximum == Len(positions) <= ConfigMaxPositions

\* C34: a cycle sends an entry order for a symbol only when no position of that symbol is open
\* and no other cycle is awaiting an entry order for the same symbol
C34_NoEntryWhileOpenOrPending ==
    [][\A c \in DOMAIN cycles' :
        (cycles'[c].pc = "entryOrder" /\ (c \in DOMAIN cycles => cycles[c].pc # "entryOrder"))
        => /\ ~MapHas(positions, cycles'[c].order.symbol)
           /\ \A other \in DOMAIN cycles :
               other # c /\ cycles[other].pc = "entryOrder"
               => cycles[other].order.symbol # cycles'[c].order.symbol]_vars

\* C33: a cycle that catches an exception while it deals with a symbol goes on with the next
\* symbol of config.symbols, or with the balance update after the last symbol, and a cycle
\* ends only through the balance update
C33_ExceptionConfinedToSymbol ==
    [][\A c \in DOMAIN cycles :
        /\ (cycles'[c].thrown # 0 /\ cycles'[c] # cycles[c])
           => /\ cycles[c].pc = "klines"
              /\ cycles'[c].thrown = cycles[c].idx
              /\ IF cycles[c].idx < Len(CycleSymbols)
                 THEN cycles'[c].pc = "klines" /\ cycles'[c].idx = cycles[c].idx + 1
                 ELSE cycles'[c].pc = "balance"
        /\ (cycles[c].pc # "done" /\ cycles'[c].pc = "done") => cycles[c].pc = "balance"]_vars

\* one cycle has caught an exception for the first symbol and awaits the klines of the second,
\* another has caught one for the last symbol and awaits the balance
C33_Witness ==
    /\ \E c \in DOMAIN cycles :
        cycles[c].thrown = 1 /\ cycles[c].pc = "klines" /\ cycles[c].idx = 2
    /\ \E c \in DOMAIN cycles :
        cycles[c].thrown = Len(CycleSymbols) /\ cycles[c].pc = "balance"

\* C40: every health-check timer the instance creates has the configured period of 60000 ms,
\* and at most one of them is armed at any time
C40_HealthCheckPeriodIsConfigured ==
    /\ \A i \in DOMAIN intervals : intervals[i].delay = [kind |-> "number", value |-> 60000]
    /\ Cardinality({i \in DOMAIN intervals : intervals[i].armed}) <= 1

\* C37: once close() has been called the instance schedules no reconnection and creates no socket
C37_ClosedInstanceStaysClosed ==
    [][closeCalled => /\ reconnectTimers' = reconnectTimers
                      /\ Len(sockets') = Len(sockets)]_vars

\* C38: at most one reconnection is pending and at most one socket of the instance is
\* connecting or open
C38_OneReconnectionOneSocket ==
    /\ reconnectTimers.connect + reconnectTimers.retry <= 1
    /\ Cardinality({id \in DOMAIN sockets : sockets[id].state \in {"connecting", "open"}}) <= 1

====
